---- MODULE Spec2Model ----
(***************************************************************************)
(* A model of the ha-pesc Home Assistant integration (custom_components/   *)
(* pesc): the coordinator's update cycle with its automatic re-login, the  *)
(* config flow, the manual reading service of the meter sensor, the        *)
(* de-duplication of meter indications and the tariff rate resolver.       *)
(***************************************************************************)
EXTENDS Integers, Sequences, FiniteSets, TLC

VARIABLES
    \* ---- PescDataUpdateCoordinator (__init__.py)
    entry,        \* config_entry.data: a dict, key -> value
    cpc,          \* position inside _async_update_data / _reauth
    cresult,      \* how the update cycle ended
    logins,       \* api.async_login calls made in the current cycle
    fetches,      \* api.async_fetch_all calls made in the current cycle
    loginToken,   \* token returned by the cycle's login ("none" before it)
    entryAtStart, \* entry data when the cycle started
    entryAtFetch, \* entry data seen when the re-fetch started
    firstOutcome, \* how the cycle's first fetch ended ("none" before it)
    loginOutcome, \* how the cycle's login ended
    secondOutcome,\* how the cycle's re-fetch ended
    cycles,       \* update cycles completed
    \* ---- ConfigFlowHandler (config_flow.py)
    fstep,        \* the step whose form is shown, or how the flow ended
    ctx,          \* self.context: a dict
    flog,         \* the API requests the flow has made, with their outcome
    created,      \* data of the created entry (empty before)
    submits,      \* forms submitted so far
    \* ---- PescMeterSensor (sensor.py)
    meterAuto,    \* self.meter.auto: the account's reading type is "auto"
    meterValue,   \* self.meter.value, the sensor's state
    serverValue,  \* the reading the provider holds
    spc,          \* position inside async_update_value / relogin_and_update_
    svalue,       \* the call's value
    sresp,        \* the call's return_response
    valueAtCall,  \* the sensor's state when the call was made
    sends,        \* api.async_update_value calls made by the current call
    relogins,     \* coordinator.relogin calls made by the current call
    out1,         \* outcome of the first attempt ("none" before it)
    outRelogin,   \* outcome of the relogin
    out2,         \* outcome of the second attempt
    sresult,      \* what the service call returned or raised
    refreshAsked, \* async_update has asked the coordinator for a refresh
    calls,        \* service calls completed
    \* ---- PescApi (pesc_api.py)
    rawMeters,    \* PescApi._meters: the indications as they were fetched
    loading,      \* the _load_meters tasks in flight: <<fetch, account>>
    dataFetches,  \* async_fetch_data calls made
    \* ---- Tariff (pesc_api.py)
    tariff,       \* a Tariff: name, kind, rates
    tmeter,       \* the MeterInd rate() is asked for: scale name, scale id
    trate,        \* what Tariff.rate returned or raised
    \* ---- PescApi._load_tariffs (pesc_api.py)
    tariffs,      \* PescApi._tariffs: account id -> the tariffs stored for it
    lastDetail,   \* the block of async_details handled last
    yielded,      \* what _process_tariff_detail made of it
    detailAcc,    \* the account _load_tariffs runs for
    detailCount,  \* blocks handled so far
    detailResult, \* how far _load_tariffs is, or how it ended
    \* ---- PescApi.async_update_value (pesc_api.py)
    updRaw,       \* PescApi._meters when the call is made
    updMeter,     \* the call's meter
    updValues,    \* the call's values, as the caller passed them
    updSent,      \* the payload handed to client.async_update_value
    updResult,   \* how the call ended ("none" before it)
    \* ---- two PescApi instances (pesc_api.py)
    classAttrs,   \* the attributes of the class PescApi
    instAttrs,    \* the attributes of each instance (its __dict__)
    instTasks,    \* the _load_account steps in flight: <<instance, step>>
    actor,        \* the instance that acted last (0: none)
    instFetches, \* async_fetch_data calls made
    \* ---- PescApi.async_fetch_data, request by request (pesc_api.py)
    fphase,       \* where async_fetch_data is, or how it ended
    fexc,         \* the exception async_fetch_data raised ("none": none)
    answers,      \* the server's answer to every request of the fetch
    accState,     \* where _load_account is, account by account
    fmeters,      \* the meters in _meters: account and subservice id
    fsubs,       \* the ids of the subservices in _subservices
    \* ---- PescClient (pesc_client.py)
    clientAuth,   \* PescClient.auth, the stored credentials
    headerAuth,   \* PescClient._headers[Authorization], or the absent header
    clientLast,  \* the last call of a client method: request sent and outcome
    \* ---- two-factor transactions of PescClient (pesc_client.py)
    transactions, \* the UserAuthTransaction dicts the server issued, by number
    sendSucceeded, \* numbers of the transactions a confirmation-send succeeded on
    txLast,      \* the last call on a transaction: request sent, type in its URL, outcome
    \* ---- the reauth_confirm step of the config flow (config_flow.py)
    reauthEntry,  \* self._reauth_entry.data
    reauthStart,  \* the entry data when the reauth flow started
    reauthLogin,  \* the last api.async_relogin call: its arguments and outcome
    reauthResult, \* what the last call of the step returned or raised
    reauthReloads \* number of async_reload calls

coordVars == <<entry, cpc, cresult, logins, fetches, loginToken,
               entryAtStart, entryAtFetch, firstOutcome, loginOutcome,
               secondOutcome, cycles>>

flowVars == <<fstep, ctx, flog, created, submits>>

sensorVars == <<meterAuto, meterValue, serverValue, spc, svalue, sresp,
                valueAtCall, sends, relogins, out1, outRelogin, out2, sresult,
                refreshAsked, calls>>

apiVars == <<rawMeters, loading, dataFetches>>

tariffVars == <<tariff, tmeter, trate>>

detailVars == <<tariffs, lastDetail, yielded, detailAcc, detailCount,
                detailResult>>

updateVars == <<updRaw, updMeter, updValues, updSent, updResult>>

instVars == <<classAttrs, instAttrs, instTasks, actor, instFetches>>

fetchVars == <<fphase, fexc, answers, accState, fmeters, fsubs>>

clientVars == <<clientAuth, headerAuth, clientLast>>

txVars == <<transactions, sendSucceeded, txLast>>

reauthVars == <<reauthEntry, reauthStart, reauthLogin, reauthResult, reauthReloads>>

vars == <<coordVars, flowVars, sensorVars, apiVars, tariffVars, detailVars,
          updateVars, instVars, fetchVars, clientVars, txVars, reauthVars>>

\* What the steps of one component leave alone.
notCoord == <<flowVars, sensorVars, apiVars, tariffVars, detailVars,
              updateVars, instVars, fetchVars, clientVars, txVars,
              reauthVars>>
notFlow == <<coordVars, sensorVars, apiVars, tariffVars, detailVars,
             updateVars, instVars, fetchVars, clientVars, txVars,
             reauthVars>>
notSensor == <<coordVars, flowVars, apiVars, tariffVars, detailVars,
               updateVars, instVars, fetchVars, clientVars, txVars,
               reauthVars>>
notApi == <<coordVars, flowVars, sensorVars, tariffVars, detailVars,
            updateVars, instVars, fetchVars, clientVars, txVars, reauthVars>>
notTariff == <<coordVars, flowVars, sensorVars, apiVars, detailVars,
               updateVars, instVars, fetchVars, clientVars, txVars,
               reauthVars>>
notDetail == <<coordVars, flowVars, sensorVars, apiVars, tariffVars,
               updateVars, instVars, fetchVars, clientVars, txVars,
               reauthVars>>
notUpdate == <<coordVars, flowVars, sensorVars, apiVars, tariffVars,
               detailVars, instVars, fetchVars, clientVars, txVars,
               reauthVars>>
notInst == <<coordVars, flowVars, sensorVars, apiVars, tariffVars,
             detailVars, updateVars, fetchVars, clientVars, txVars,
             reauthVars>>
notFetch == <<coordVars, flowVars, sensorVars, apiVars, tariffVars,
              detailVars, updateVars, instVars, clientVars, txVars,
              reauthVars>>
notClient == <<coordVars, flowVars, sensorVars, apiVars, tariffVars,
               detailVars, updateVars, instVars, fetchVars, txVars,
               reauthVars>>
notTx == <<coordVars, flowVars, sensorVars, apiVars, tariffVars, detailVars,
           updateVars, instVars, fetchVars, clientVars, reauthVars>>

----------------------------------------------------------------------------
(* Bounds *)

MaxCycles == 2
MaxSubmits == 5
MaxCalls == 2
MaxValue == 3
MaxDataFetches == 2
MaxRates == 2
MaxDetails == 1
MaxSolidRows == 2
MaxTableRows == 3
MaxEntries == 2
MaxInstFetches == 2

----------------------------------------------------------------------------
(* const.py *)

CONF_TOKEN == "token"
CONF_USERNAME == "username"
CONF_PASSWORD == "password"
CONF_LOGIN_TYPE == "login_type"
CONF_AUTH == "auth"
CONF_SAVE_PWD == "save_password"

----------------------------------------------------------------------------
(* Dictionaries: functions from a finite set of keys *)

\* {**d, k: v}
DictSet(d, k, v) ==
    [x \in (DOMAIN d) \cup {k} |-> IF x = k THEN v ELSE d[x]]

\* Sequences over S of a length up to n.
SeqUpTo(S, n) == UNION { [1..k -> S] : k \in 0..n }

----------------------------------------------------------------------------
(* The coordinator's update cycle *)

Usernames == {"+71234567890"}
Passwords == {"pw1", "pw2"}
Tokens == {"tok1", "tok2"}
LoginTypes == {"phone"}

\* The requests of pesc_client end in one of these ways
\* (_async_response_json: ClientAuthError, ClientError; async_timeout).
Outcomes == {"ok", "auth_error", "client_error", "timeout"}

\* entry.data of an entry this coordinator is set up with: it reads
\* data["token"] and data["username"]; the password is stored on request.
EntryDatas ==
    { d \in UNION { [K -> Usernames \cup Passwords \cup Tokens \cup LoginTypes] :
                    K \in { {CONF_USERNAME, CONF_TOKEN} \cup O :
                            O \in SUBSET {CONF_PASSWORD, CONF_LOGIN_TYPE} } } :
        /\ d[CONF_USERNAME] \in Usernames
        /\ d[CONF_TOKEN] \in Tokens
        /\ (CONF_PASSWORD \in DOMAIN d => d[CONF_PASSWORD] \in Passwords)
        /\ (CONF_LOGIN_TYPE \in DOMAIN d => d[CONF_LOGIN_TYPE] \in LoginTypes) }

\* PescApi.async_fetch_all: the profile request, then the data requests.
FetchAllOutcome(profile, data) ==
    IF profile # "ok" THEN profile ELSE data

\* The except clauses of _async_update_data and _reauth.
RaisedFor(outcome) ==
    CASE outcome = "auth_error" -> "ConfigEntryAuthFailed"
      [] outcome = "client_error" -> "UpdateFailed"
      [] outcome = "timeout" -> "TimeoutError"
      [] outcome = "no_token" -> "KeyError"
      [] OTHER -> "ok"

CoordInit ==
    /\ entry \in EntryDatas
    /\ cpc = "idle"
    /\ cresult = "none"
    /\ logins = 0
    /\ fetches = 0
    /\ loginToken = "none"
    /\ entryAtStart = entry
    /\ entryAtFetch = entry
    /\ firstOutcome = "none"
    /\ loginOutcome = "none"
    /\ secondOutcome = "none"
    /\ cycles = 0

\* No config flow is in progress.
FlowIdle ==
    /\ fstep = "user"
    /\ ctx = <<>>
    /\ flog = <<>>
    /\ created = <<>>
    /\ submits = 0

\* A PescApi that has fetched nothing.
ApiIdle ==
    /\ rawMeters = <<>>
    /\ loading = {}
    /\ dataFetches = 0

\* What Tariff.rate returns or raises: None, the rate at a position of
\* self.rates, or the TypeError of its last line.
RateNone == [kind |-> "None", pos |-> 0]
RateAt(i) == [kind |-> "rate", pos |-> i]
RateTypeError == [kind |-> "TypeError", pos |-> 0]
RatePending == [kind |-> "pending", pos |-> 0]

\* No rate is asked for.
TariffIdle ==
    /\ tariff = [name |-> "Gaz", kind |-> "None", rates |-> <<>>]
    /\ tmeter = [name |-> "", scale_id |-> 1]
    /\ trate = RatePending

\* No _load_tariffs is running, no tariff is stored.
DetailIdle ==
    /\ tariffs = <<>>
    /\ lastDetail = [blockType |-> "IMAGE", header |-> "Gaz", columns |-> <<>>,
                     content |-> <<>>]
    /\ yielded = [exc |-> "none", tariff |-> <<>>]
    /\ detailAcc = 1
    /\ detailCount = 0
    /\ detailResult = "none"

\* No async_update_value call has been made.
UpdateIdle ==
    /\ updRaw = <<>>
    /\ updMeter = [acc |-> 0, meter |-> <<>>, scale |-> 0, value |-> 0]
    /\ updValues = <<>>
    /\ updSent = <<>>
    /\ updResult = "none"

\* The class PescApi as it is defined, and two instances that have fetched
\* nothing: __init__ gives an instance a client and nothing else.
InstIdle ==
    /\ classAttrs = [profile |-> "None", meters |-> <<>>, groups |-> <<>>,
                     tariffs |-> <<>>, subservices |-> {}]
    /\ instAttrs = [i \in {1, 2} |-> <<>>]
    /\ instTasks = {}
    /\ actor = 0
    /\ instFetches = 0

\* No async_fetch_data has been called.
FetchIdle ==
    /\ fphase = "idle"
    /\ fexc = "none"
    /\ answers = <<>>
    /\ accState = <<>>
    /\ fmeters = {}
    /\ fsubs = {}

\* What a service call returns or raises.
ClientIdle ==
    /\ clientAuth = [type |-> "NoneType"]
    /\ headerAuth = [type |-> "NoneType"]
    /\ clientLast = [call |-> "none", arg |-> [type |-> "NoneType"],
                     sent |-> FALSE,
                     authorization |-> [type |-> "NoneType"],
                     verification |-> [type |-> "NoneType"],
                     result |-> [type |-> "NoneType"],
                     empty_body_request |-> FALSE,
                     exc |-> "none",
                     code |-> [type |-> "NoneType"],
                     value |-> [type |-> "NoneType"]]

TxIdle ==
    /\ transactions = <<>>
    /\ sendSucceeded = {}
    /\ txLast = [call |-> "none", tx |-> 0, arg |-> <<>>, sent |-> FALSE,
                 urlType |-> [type |-> "NoneType"], status |-> 0,
                 exc |-> "none"]

\* No reauth flow is in progress.
ReauthIdle ==
    /\ reauthEntry = <<>>
    /\ reauthStart = <<>>
    /\ reauthLogin = [outcome |-> "none", username |-> "", password |-> "",
                      login_type |-> "",
                      auth |-> [auth |-> "", verified |-> ""]]
    /\ reauthResult = [type |-> "none", step_id |-> "", reason |-> "",
                       errors |-> <<>>]
    /\ reauthReloads = 0

Response(code, message, payload) ==
    [kind |-> "return", none |-> FALSE, exc |-> "-", code |-> code,
     message |-> message, payload |-> payload]

NoneResult ==
    [kind |-> "return", none |-> TRUE, exc |-> "-", code |-> 0,
     message |-> "-", payload |-> 0]

Raised(exc, message) ==
    [kind |-> "raise", none |-> FALSE, exc |-> exc, code |-> 0,
     message |-> message, payload |-> 0]

NoResult ==
    [kind |-> "pending", none |-> FALSE, exc |-> "-", code |-> 0,
     message |-> "-", payload |-> 0]

\* One manual meter with a reading, no service call in progress.
SensorIdle ==
    /\ meterAuto = FALSE
    /\ meterValue = 1
    /\ serverValue = 1
    /\ spc = "idle"
    /\ svalue = 1
    /\ sresp = FALSE
    /\ valueAtCall = 1
    /\ sends = 0
    /\ relogins = 0
    /\ out1 = "none"
    /\ outRelogin = "none"
    /\ out2 = "none"
    /\ sresult = NoResult
    /\ refreshAsked = FALSE
    /\ calls = 0

\* The scheduler calls _async_update_data.
UpdateBegin ==
    /\ cpc = "idle"
    /\ cycles < MaxCycles
    /\ cpc' = "fetch"
    /\ cresult' = "none"
    /\ logins' = 0
    /\ fetches' = 0
    /\ loginToken' = "none"
    /\ entryAtStart' = entry
    /\ entryAtFetch' = entry
    /\ firstOutcome' = "none"
    /\ loginOutcome' = "none"
    /\ secondOutcome' = "none"
    /\ UNCHANGED <<entry, cycles>>
    /\ UNCHANGED notCoord

\* A bug: the re-login is tried whether or not a password is stored.
AfterFirstFetch_NoPasswordCheck(outcome) ==
    /\ firstOutcome' = outcome
    /\ IF outcome = "auth_error"
       THEN /\ cpc' = "reauth_login"
            /\ cresult' = cresult
       ELSE /\ cpc' = "done"
            /\ cresult' = RaisedFor(outcome)

\* A bug: every ClientError of the first fetch starts the re-login.
AfterFirstFetch_ReloginOnAnyError(outcome) ==
    /\ firstOutcome' = outcome
    /\ IF outcome \in {"auth_error", "client_error"}
            /\ CONF_PASSWORD \in DOMAIN entry
       THEN /\ cpc' = "reauth_login"
            /\ cresult' = cresult
       ELSE /\ cpc' = "done"
            /\ cresult' = RaisedFor(outcome)

\* _async_update_data: the first fetch and its except clauses.
AfterFirstFetch(outcome) ==
    /\ firstOutcome' = outcome
    /\ IF outcome = "auth_error" /\ CONF_PASSWORD \in DOMAIN entry
       THEN /\ cpc' = "reauth_login"
            /\ cresult' = cresult
       ELSE /\ cpc' = "done"
            /\ cresult' = RaisedFor(outcome)

UpdateFetch ==
    /\ cpc = "fetch"
    /\ \E p \in Outcomes, d \in Outcomes :
        AfterFirstFetch(FetchAllOutcome(p, d))
    /\ fetches' = fetches + 1
    /\ UNCHANGED <<entry, logins, loginToken, entryAtStart, entryAtFetch,
                   loginOutcome, secondOutcome, cycles>>
    /\ UNCHANGED notCoord

\* A bug: data = {CONF_TOKEN: token}, the other fields are dropped.
AfterLogin_DropFields(outcome, token) ==
    /\ loginOutcome' = outcome
    /\ IF outcome = "ok"
       THEN /\ entry' = [k \in {CONF_TOKEN} |-> token]
            /\ loginToken' = token
            /\ cpc' = "reauth_fetch"
            /\ cresult' = cresult
       ELSE /\ entry' = entry
            /\ loginToken' = loginToken
            /\ cpc' = "done"
            /\ cresult' = RaisedFor(outcome)

\* _reauth: api.async_login and async_update_entry.
AfterLogin(outcome, token) ==
    /\ loginOutcome' = outcome
    /\ IF outcome = "ok"
       THEN /\ entry' = DictSet(entry, CONF_TOKEN, token)
            /\ loginToken' = token
            /\ cpc' = "reauth_fetch"
            /\ cresult' = cresult
       ELSE /\ entry' = entry
            /\ loginToken' = loginToken
            /\ cpc' = "done"
            /\ cresult' = RaisedFor(outcome)

\* PescClient.async_login answers with a token, raises ClientAuthError or
\* ClientError, or finds no "auth" in the answer (KeyError).
ReauthLogin ==
    /\ cpc = "reauth_login"
    /\ \E o \in {"ok", "auth_error", "client_error", "no_token"}, t \in Tokens :
        AfterLogin(o, t)
    /\ logins' = logins + 1
    /\ UNCHANGED <<fetches, entryAtStart, entryAtFetch, firstOutcome,
                   secondOutcome, cycles>>
    /\ UNCHANGED notCoord

\* A bug: an authentication failure of the re-fetch starts another login.
AfterSecondFetch_Retry(outcome) ==
    /\ secondOutcome' = outcome
    /\ IF outcome = "auth_error"
       THEN /\ cpc' = "reauth_login"
            /\ cresult' = cresult
       ELSE /\ cpc' = "done"
            /\ cresult' = RaisedFor(outcome)

\* _reauth: the fetch after the login, and the except clauses.
AfterSecondFetch(outcome) ==
    /\ secondOutcome' = outcome
    /\ cpc' = "done"
    /\ cresult' = RaisedFor(outcome)

ReauthFetch ==
    /\ cpc = "reauth_fetch"
    /\ \E p \in Outcomes, d \in Outcomes :
        AfterSecondFetch(FetchAllOutcome(p, d))
    /\ fetches' = fetches + 1
    /\ entryAtFetch' = entry
    /\ UNCHANGED <<entry, logins, loginToken, entryAtStart, firstOutcome,
                   loginOutcome, cycles>>
    /\ UNCHANGED notCoord

\* _async_update_data has returned or raised.
UpdateEnd ==
    /\ cpc = "done"
    /\ cpc' = "idle"
    /\ cycles' = cycles + 1
    /\ UNCHANGED <<entry, cresult, logins, fetches, loginToken,
                   entryAtStart, entryAtFetch, firstOutcome, loginOutcome,
                   secondOutcome>>
    /\ UNCHANGED notCoord

CoordNext ==
    \/ UpdateBegin
    \/ UpdateFetch
    \/ ReauthLogin
    \/ ReauthFetch
    \/ UpdateEnd

Init == CoordInit /\ FlowIdle /\ SensorIdle /\ ApiIdle /\ TariffIdle
    /\ DetailIdle /\ UpdateIdle /\ InstIdle /\ FetchIdle /\ ClientIdle
    /\ TxIdle /\ ReauthIdle

Spec == Init /\ [][CoordNext]_vars

\* The cycle's first fetch failed with ClientAuthError.
FirstFetchAuthFailed == firstOutcome = "auth_error"

\* C1: when the first fetch fails with ClientAuthError and a password is
\* stored, exactly one login is made and at most one re-fetch follows it (a
\* re-fetch only after a successful login); a ClientAuthError of the login or
\* of the re-fetch ends the cycle with ConfigEntryAuthFailed, and no cycle
\* ever makes a second login or a third fetch.
C1_ReloginOnce ==
    /\ logins <= 1
    /\ fetches <= 2
    /\ (fetches = 2 => logins = 1 /\ loginOutcome = "ok")
    /\ (cpc \in {"done", "idle"} /\ FirstFetchAuthFailed
            /\ CONF_PASSWORD \in DOMAIN entryAtStart
        => /\ logins = 1
           /\ (loginOutcome = "ok" <=> fetches = 2)
           /\ (loginOutcome = "auth_error" \/ secondOutcome = "auth_error"
                  => cresult = "ConfigEntryAuthFailed"))

\* C1's case: login succeeded, the re-fetch failed again with ClientAuthError.
C1_Witness ==
    /\ cpc = "done"
    /\ FirstFetchAuthFailed
    /\ logins = 1
    /\ fetches = 2
    /\ secondOutcome = "auth_error"
    /\ cresult = "ConfigEntryAuthFailed"

\* C4: after a successful login of _reauth the entry holds the token that
\* login returned and every other field as it was, and it already does when
\* the re-fetch starts; a failed login (or none) leaves the entry unchanged.
C4_ReauthStoresToken ==
    /\ (loginOutcome = "ok"
        => /\ DOMAIN entry = DOMAIN entryAtStart
           /\ entry[CONF_TOKEN] = loginToken
           /\ \A k \in DOMAIN entry \ {CONF_TOKEN} : entry[k] = entryAtStart[k])
    /\ (cpc = "reauth_fetch" => entry[CONF_TOKEN] = loginToken)
    /\ (fetches = 2 => entryAtFetch = entry /\ entryAtFetch[CONF_TOKEN] = loginToken)
    /\ (loginOutcome # "ok" => entry = entryAtStart)

\* C4's case: the login returned a new token and the re-fetch has run.
C4_Witness ==
    /\ cpc = "done"
    /\ loginOutcome = "ok"
    /\ fetches = 2
    /\ entry[CONF_TOKEN] # entryAtStart[CONF_TOKEN]
    /\ CONF_LOGIN_TYPE \in DOMAIN entry

\* C7: when the first fetch fails with ClientAuthError and no password is
\* stored, the cycle ends with ConfigEntryAuthFailed after that one fetch and
\* without a login; a login is only ever made with a stored password.
C7_NoPasswordNoLogin ==
    /\ (logins > 0 \/ cpc = "reauth_login" => CONF_PASSWORD \in DOMAIN entryAtStart)
    /\ (cpc \in {"done", "idle"} /\ FirstFetchAuthFailed
            /\ CONF_PASSWORD \notin DOMAIN entryAtStart
        => /\ cresult = "ConfigEntryAuthFailed"
           /\ logins = 0
           /\ fetches = 1)

\* C7's case: an entry without password, the fetch failed with ClientAuthError.
C7_Witness ==
    /\ cpc = "done"
    /\ FirstFetchAuthFailed
    /\ CONF_PASSWORD \notin DOMAIN entryAtStart
    /\ cresult = "ConfigEntryAuthFailed"

\* C16: when the cycle's fetch fails with a ClientError that is not an
\* authentication error, the cycle ends with UpdateFailed after that one
\* fetch, no login is made and the entry data is what it was when the cycle
\* started; a re-fetch that fails this way ends the cycle with UpdateFailed too.
C16_ClientErrorNoLogin ==
    /\ (firstOutcome = "client_error"
        => /\ cpc \in {"done", "idle"}
           /\ cresult = "UpdateFailed"
           /\ logins = 0
           /\ fetches = 1
           /\ entry = entryAtStart)
    /\ (secondOutcome = "client_error" => cresult = "UpdateFailed")

\* C16's case: an entry with a stored password, the fetch failed with a
\* ClientError that is not a ClientAuthError.
C16_Witness ==
    /\ cpc = "done"
    /\ firstOutcome = "client_error"
    /\ CONF_PASSWORD \in DOMAIN entry
    /\ cresult = "UpdateFailed"

----------------------------------------------------------------------------
(* The config flow (config_flow.py).  Strings the flow inspects are        *)
(* sequences of characters.                                                *)

\* str.replace(c, "")
Remove(s, c) == SelectSeq(s, LAMBDA x : x # c)

FlowLoginTypes == {"phone", "email"}

\* What the user may type into the login field.
RawUsernames ==
    { <<"+", "7", "1", "2", "3", "4", "5", "6", "7", "8", "9", "0">>,
      <<"8", " ", "(", "1", "2", "3", ")", "4", "5", "6", "-", "7", "8", "9", "0">>,
      <<"1", "2", "3">>,
      <<"-">>,
      <<>>,
      <<"a", "@", "b", ".", "c", "d">>,
      <<"a", "b">> }

RawPasswords == { <<"p", "w">>, <<"p", "w", "d", "1">> }

\* UserAuthTransaction answered by the login: its confirmation types.
Transactions ==
    { [transactionId |-> "tx1", types |-> T] :
        T \in { {"PHONE"}, {"PHONE", "EMAIL"} } }

\* UserAuth answered by the verification of the code.
UserAuths == { [auth |-> t, verified |-> "ver1"] : t \in Tokens }

\* The API calls of the flow return, or raise ClientAuthError or ClientError.
FlowApiOutcomes == {"ok", "auth_error", "client_error"}

\* async_step_auth, lines 170-176: the login as it is sent.
NormalizeUsername(login_type, raw) ==
    LET u1 == Remove(raw, " ")
        u2 == IF u1[1] = "8" THEN <<"+", "7">> \o Tail(u1) ELSE u1
    IN  IF login_type = "phone"
        THEN Remove(Remove(Remove(u2, "-"), "("), ")")
        ELSE u1

Contains(s, c) == \E i \in 1..Len(s) : s[i] = c

\* async_step_auth, lines 171-196: what stops the step before the login
\* request ("login" when nothing does).
AuthCheck(login_type, raw, password, matches, uidTaken) ==
    LET u1 == Remove(raw, " ")
        username == NormalizeUsername(login_type, raw)
    IN  CASE login_type = "phone" /\ (u1 = <<>> \/ username = <<>>) -> "IndexError"
          [] login_type = "phone" /\ (username[1] # "+" \/ Len(username) # 12)
                -> "invalid_username"
          [] login_type = "email" /\ (~Contains(username, "@") \/ Len(username) < 6)
                -> "invalid_username"
          [] matches -> "abort"
          [] Len(password) < 3 -> "invalid_password"
          [] uidTaken -> "abort"
          [] OTHER -> "login"

\* async_step_user with the chosen login type; it shows the auth form.
StepUser ==
    /\ fstep = "user"
    /\ submits < MaxSubmits
    /\ \E lt \in FlowLoginTypes : ctx' = DictSet(ctx, CONF_LOGIN_TYPE, lt)
    /\ fstep' = "auth"
    /\ submits' = submits + 1
    /\ UNCHANGED <<flog, created>>
    /\ UNCHANGED notFlow

\* self.context after a login the API accepted (lines 198-204).
ContextAfterLogin(username, password, save, tx) ==
    LET c1 == DictSet(DictSet(ctx, CONF_AUTH, tx), CONF_USERNAME, username)
    IN  IF save THEN DictSet(c1, CONF_PASSWORD, password) ELSE c1

\* async_step_auth: the login request and what follows it.
AfterAuthLogin(outcome, username, password, save, tx) ==
    /\ flog' = Append(flog, IF outcome = "ok" THEN "auth_ok" ELSE "auth_fail")
    /\ IF outcome = "ok"
       THEN /\ ctx' = ContextAfterLogin(username, password, save, tx)
            /\ fstep' = "send_code"
       ELSE /\ ctx' = ctx
            /\ fstep' = "auth"

\* async_step_auth with the form's input.
StepAuth ==
    /\ fstep = "auth"
    /\ submits < MaxSubmits
    /\ submits' = submits + 1
    /\ \E raw \in RawUsernames, pw \in RawPasswords, save \in BOOLEAN,
          matches \in BOOLEAN, uidTaken \in BOOLEAN,
          outcome \in FlowApiOutcomes, tx \in Transactions :
        LET lt == ctx[CONF_LOGIN_TYPE]
            check == AuthCheck(lt, raw, pw, matches, uidTaken)
        IN  CASE check = "login" ->
                    AfterAuthLogin(outcome, NormalizeUsername(lt, raw), pw, save, tx)
              [] check = "abort" ->
                    /\ fstep' = "aborted"
                    /\ UNCHANGED <<ctx, flog>>
              [] OTHER ->
                    \* the form again with its errors, or IndexError
                    UNCHANGED <<fstep, ctx, flog>>
    /\ UNCHANGED created
    /\ UNCHANGED notFlow

\* A bug: the verify_code step follows a failed confirmation request too.
AfterSendCode_IgnoreFailure(outcome, verify_type) ==
    /\ flog' = Append(flog, IF outcome = "ok" THEN "send_ok" ELSE "send_fail")
    /\ ctx' = DictSet(ctx, "verify_type", verify_type)
    /\ fstep' = "verify_code"

\* async_step_send_code: the confirmation request and what follows it.
AfterSendCode(outcome, verify_type) ==
    /\ flog' = Append(flog, IF outcome = "ok" THEN "send_ok" ELSE "send_fail")
    /\ IF outcome = "ok"
       THEN /\ ctx' = DictSet(ctx, "verify_type", verify_type)
            /\ fstep' = "verify_code"
       ELSE /\ ctx' = ctx
            /\ fstep' = "send_code"

\* async_step_send_code with the confirmation type chosen in the form.
StepSendCode ==
    /\ fstep = "send_code"
    /\ submits < MaxSubmits
    /\ submits' = submits + 1
    /\ \E vt \in ctx[CONF_AUTH].types, outcome \in FlowApiOutcomes :
        AfterSendCode(outcome, vt)
    /\ UNCHANGED created
    /\ UNCHANGED notFlow

\* The data of the entry async_step_verify_code creates (lines 300-308).
EntryDataOf(auth) ==
    LET keys == {CONF_AUTH, CONF_LOGIN_TYPE, CONF_USERNAME}
                    \cup ({CONF_PASSWORD} \cap DOMAIN ctx)
    IN  [k \in keys |-> IF k = CONF_AUTH THEN auth ELSE ctx[k]]

\* async_step_verify_code: the verification, the profile request, the entry.
AfterVerifyCode(verified, auth, profile) ==
    IF verified # "ok"
    THEN /\ flog' = Append(flog, "verify_fail")
         /\ UNCHANGED <<fstep, created>>
    ELSE IF profile # "ok"
    THEN /\ flog' = flog \o <<"verify_ok", "profile_fail">>
         /\ UNCHANGED <<fstep, created>>
    ELSE /\ flog' = flog \o <<"verify_ok", "profile_ok">>
         /\ created' = EntryDataOf(auth)
         /\ fstep' = "created"

\* async_step_verify_code with the code typed into the form.
StepVerifyCode ==
    /\ fstep = "verify_code"
    /\ submits < MaxSubmits
    /\ submits' = submits + 1
    /\ \E verified \in FlowApiOutcomes, auth \in UserAuths,
          profile \in FlowApiOutcomes :
        AfterVerifyCode(verified, auth, profile)
    /\ UNCHANGED ctx
    /\ UNCHANGED notFlow

FlowNext ==
    \/ StepUser
    \/ StepAuth
    \/ StepSendCode
    \/ StepVerifyCode

\* No update cycle runs: the entry does not exist yet.
CoordIdle ==
    /\ entry = [k \in {CONF_USERNAME, CONF_TOKEN} |->
                   IF k = CONF_USERNAME THEN "+71234567890" ELSE "tok1"]
    /\ cpc = "idle"
    /\ cresult = "none"
    /\ logins = 0
    /\ fetches = 0
    /\ loginToken = "none"
    /\ entryAtStart = entry
    /\ entryAtFetch = entry
    /\ firstOutcome = "none"
    /\ loginOutcome = "none"
    /\ secondOutcome = "none"
    /\ cycles = 0

InitFlow == FlowIdle /\ CoordIdle /\ SensorIdle /\ ApiIdle /\ TariffIdle
    /\ DetailIdle /\ UpdateIdle /\ InstIdle /\ FetchIdle /\ ClientIdle
    /\ TxIdle /\ ReauthIdle

SpecFlow == InitFlow /\ [][FlowNext]_vars

\* Position of the first event e in the log, 0 when it is not there.
FirstIndex(log, e) ==
    IF \E i \in 1..Len(log) : log[i] = e
    THEN CHOOSE i \in 1..Len(log) : log[i] = e /\ \A j \in 1..(i - 1) : log[j] # e
    ELSE 0

\* C2: an entry is created only at the end of the sequence login accepted ->
\* confirmation code requested -> code verified -> profile fetched: the log of
\* a flow that created an entry ends with the accepted verification followed
\* by the fetched profile, and no request of a later step is ever made before
\* the step before it succeeded.
C2_EntryOnlyAfterAllSteps ==
    /\ \A n \in 1..Len(flog) :
        /\ (flog[n] \in {"send_ok", "send_fail"}
            => \E m \in 1..(n - 1) : flog[m] = "auth_ok")
        /\ (flog[n] \in {"verify_ok", "verify_fail"}
            => \E m \in 1..(n - 1) :
                 /\ flog[m] = "send_ok"
                 /\ \E a \in 1..(m - 1) : flog[a] = "auth_ok")
        /\ (flog[n] \in {"profile_ok", "profile_fail"}
            => n > 1 /\ flog[n - 1] = "verify_ok")
    /\ (fstep = "created" \/ created # <<>>
        => /\ fstep = "created"
           /\ Len(flog) >= 4
           /\ flog[Len(flog)] = "profile_ok"
           /\ flog[Len(flog) - 1] = "verify_ok"
           /\ 0 < FirstIndex(flog, "auth_ok")
           /\ FirstIndex(flog, "auth_ok") < FirstIndex(flog, "send_ok")
           /\ FirstIndex(flog, "send_ok") < Len(flog) - 1
           /\ CONF_AUTH \in DOMAIN ctx
           /\ "verify_type" \in DOMAIN ctx
           /\ ctx["verify_type"] \in ctx[CONF_AUTH].types)

\* C2's case: an entry was created after a failed and a repeated step.
C2_Witness ==
    /\ fstep = "created"
    /\ created # <<>>
    /\ \E n \in 1..Len(flog) : flog[n] \in {"send_fail", "verify_fail", "profile_fail"}

----------------------------------------------------------------------------
(* The update_value service of PescMeterSensor (sensor.py) *)

\* An API call of the sensor returns, or raises ClientAuthError or ClientError.
SensorApiOutcomes == {"ok", "auth_error", "client_error"}

\* coordinator.relogin returns, or raises ClientAuthError or ClientError.
ReloginOutcomes == {"ok", "auth_error", "client_error"}

\* err.code and err.message of the error an outcome raises.
ErrCode(outcome) == IF outcome = "auth_error" THEN 5 ELSE 404
ErrMessage(outcome) == IF outcome = "auth_error" THEN "auth_message" ELSE "client_message"

\* The values the service schema admits: integers from 1 up.
ServiceValues == 1..MaxValue

SensorInit ==
    /\ meterAuto \in BOOLEAN
    /\ meterValue \in ServiceValues
    /\ serverValue = meterValue
    /\ spc = "idle"
    /\ svalue = 1
    /\ sresp = FALSE
    /\ valueAtCall = meterValue
    /\ sends = 0
    /\ relogins = 0
    /\ out1 = "none"
    /\ outRelogin = "none"
    /\ out2 = "none"
    /\ sresult = NoResult
    /\ refreshAsked = FALSE
    /\ calls = 0

\* async_update_value returns res after async_update, or raises.
Finish(res) ==
    /\ spc' = "done"
    /\ sresult' = res
    /\ refreshAsked' = (refreshAsked \/ res.kind = "return")

\* A rejection: a response when one is requested, HomeAssistantError otherwise.
Rejected(code, message, resp) ==
    IF resp THEN Response(code, message, 0) ELSE Raised("HomeAssistantError", message)

\* A bug: a value equal to the current one is rejected as well.
Rejection_OrEqual(auto, value, state, resp) ==
    IF auto THEN Rejected(-2, "auto_mode", resp)
    ELSE IF value <= state THEN Rejected(-3, "lower_than_previous", resp)
    ELSE NoResult

\* async_update_value, lines 249-259: the rejection, NoResult when there is none.
Rejection(auto, value, state, resp) ==
    IF auto THEN Rejected(-2, "auto_mode", resp)
    ELSE IF value < state THEN Rejected(-3, "lower_than_previous", resp)
    ELSE NoResult

\* The service update_value is called on the sensor.
CallUpdateValue ==
    /\ spc = "idle"
    /\ calls < MaxCalls
    /\ \E value \in ServiceValues, resp \in BOOLEAN :
        /\ svalue' = value
        /\ sresp' = resp
        /\ IF Rejection(meterAuto, value, meterValue, resp) # NoResult
           THEN Finish(Rejection(meterAuto, value, meterValue, resp))
           ELSE /\ spc' = "attempt1"
                /\ sresult' = NoResult
                /\ refreshAsked' = refreshAsked
    /\ valueAtCall' = meterValue
    /\ sends' = 0
    /\ relogins' = 0
    /\ out1' = "none"
    /\ outRelogin' = "none"
    /\ out2' = "none"
    /\ UNCHANGED <<meterAuto, meterValue, serverValue, calls>>
    /\ UNCHANGED notSensor

\* relogin_and_update_: what one pass returns or raises for the outcome of
\* its relogin or of its API request (lines 271-288, without the retry).
AttemptResult(outcome, value, resp) ==
    CASE outcome = "ok" -> Response(0, "success", value)
      [] outcome = "auth_error" ->
            IF resp THEN Response(ErrCode(outcome), ErrMessage(outcome), 0)
            ELSE Raised("ConfigEntryAuthFailed", ErrMessage(outcome))
      [] OTHER ->
            IF resp THEN Response(ErrCode(outcome), ErrMessage(outcome), 0)
            ELSE Raised("HomeAssistantError", ErrMessage(outcome))

\* relogin_and_update_, lines 279-281: the first pass awaits the second one
\* and returns None; what the second pass raises propagates.
AfterRetry(inner) ==
    IF inner.kind = "raise" THEN inner ELSE NoneResult

\* relogin_and_update_(value, return_response, False): the first request.
Attempt1 ==
    /\ spc = "attempt1"
    /\ \E outcome \in SensorApiOutcomes :
        /\ out1' = outcome
        /\ serverValue' = IF outcome = "ok" THEN svalue ELSE serverValue
        /\ IF outcome = "auth_error"
           THEN /\ spc' = "relogin"
                /\ UNCHANGED <<sresult, refreshAsked>>
           ELSE Finish(AttemptResult(outcome, svalue, sresp))
    /\ sends' = sends + 1
    /\ UNCHANGED <<meterAuto, meterValue, svalue, sresp, valueAtCall, relogins,
                   outRelogin, out2, calls>>
    /\ UNCHANGED notSensor

\* relogin_and_update_(value, return_response, True): coordinator.relogin.
Relogin ==
    /\ spc = "relogin"
    /\ \E outcome \in ReloginOutcomes :
        /\ outRelogin' = outcome
        /\ IF outcome = "ok"
           THEN /\ spc' = "attempt2"
                /\ UNCHANGED <<sresult, refreshAsked>>
           ELSE Finish(AfterRetry(AttemptResult(outcome, svalue, sresp)))
    /\ relogins' = relogins + 1
    /\ UNCHANGED <<meterAuto, meterValue, serverValue, svalue, sresp,
                   valueAtCall, sends, out1, out2, calls>>
    /\ UNCHANGED notSensor

\* relogin_and_update_(value, return_response, True): the second request.
Attempt2 ==
    /\ spc = "attempt2"
    /\ \E outcome \in SensorApiOutcomes :
        /\ out2' = outcome
        /\ serverValue' = IF outcome = "ok" THEN svalue ELSE serverValue
        /\ Finish(AfterRetry(AttemptResult(outcome, svalue, sresp)))
    /\ sends' = sends + 1
    /\ UNCHANGED <<meterAuto, meterValue, svalue, sresp, valueAtCall, relogins,
                   out1, outRelogin, calls>>
    /\ UNCHANGED notSensor

\* The service call is over.
CallEnd ==
    /\ spc = "done"
    /\ spc' = "idle"
    /\ calls' = calls + 1
    /\ UNCHANGED <<meterAuto, meterValue, serverValue, svalue, sresp,
                   valueAtCall, sends, relogins, out1, outRelogin, out2,
                   sresult, refreshAsked>>
    /\ UNCHANGED notSensor

\* _handle_coordinator_update after the refresh async_update asked for: the
\* sensor takes the indication the coordinator fetched (when it fetched one).
RefreshMeter ==
    /\ refreshAsked
    /\ refreshAsked' = FALSE
    /\ \E fetched \in BOOLEAN :
        meterValue' = IF fetched THEN serverValue ELSE meterValue
    /\ UNCHANGED <<meterAuto, serverValue, spc, svalue, sresp, valueAtCall,
                   sends, relogins, out1, outRelogin, out2, sresult, calls>>
    /\ UNCHANGED notSensor

SensorNext ==
    \/ CallUpdateValue
    \/ Attempt1
    \/ Relogin
    \/ Attempt2
    \/ CallEnd
    \/ RefreshMeter

InitSensor == SensorInit /\ CoordIdle /\ FlowIdle /\ ApiIdle /\ TariffIdle
    /\ DetailIdle /\ UpdateIdle /\ InstIdle /\ FetchIdle /\ ClientIdle
    /\ TxIdle /\ ReauthIdle

SpecSensor == InitSensor /\ [][SensorNext]_vars

\* C3: one update_value call sends the reading at most twice, the second
\* time only after a relogin that followed a ClientAuthError of the first;
\* when the second attempt fails with ClientAuthError too, the caller gets
\* ConfigEntryAuthFailed (no response requested) or a response with the
\* error's code and message (response requested).
C3_RetryOnceAndSurface ==
    /\ sends <= 2
    /\ (sends = 2 => out1 = "auth_error" /\ relogins = 1 /\ outRelogin = "ok")
    /\ (spc = "done" /\ out2 = "auth_error"
        => sresult = IF sresp
                     THEN Response(ErrCode(out2), ErrMessage(out2), 0)
                     ELSE Raised("ConfigEntryAuthFailed", ErrMessage(out2)))

\* C14: when the first attempt fails with ClientAuthError and the attempt
\* after the relogin succeeds, the call returns the success response (code 0
\* with the value that was sent); a call that made a second attempt returns
\* or raises what that attempt produced.
C14_ReturnsLastAttempt ==
    /\ (spc = "done" /\ out1 = "auth_error" /\ out2 = "ok"
        => sresult = Response(0, "success", svalue))
    /\ (spc = "done" /\ sends = 2
        => sresult = AttemptResult(out2, svalue, sresp))

\* C8: a call on a meter read automatically (code -2) or with a value lower
\* than the sensor's state (code -3) makes no API request and no relogin and
\* is answered with the rejection, as a response when one is requested and
\* as HomeAssistantError otherwise; a value equal to the state is sent.
C8_RejectWithoutRequest ==
    /\ (spc \in {"attempt1", "relogin", "attempt2"}
        => ~meterAuto /\ svalue >= valueAtCall)
    /\ (spc = "done" /\ meterAuto
        => /\ sends = 0 /\ relogins = 0
           /\ sresult = IF sresp THEN Response(-2, "auto_mode", 0)
                        ELSE Raised("HomeAssistantError", "auto_mode"))
    /\ (spc = "done" /\ ~meterAuto /\ svalue < valueAtCall
        => /\ sends = 0 /\ relogins = 0
           /\ sresult = IF sresp THEN Response(-3, "lower_than_previous", 0)
                        ELSE Raised("HomeAssistantError", "lower_than_previous"))
    /\ (spc = "done" /\ ~meterAuto /\ svalue >= valueAtCall
        => sends >= 1 /\ sresult.code \notin {-2, -3})

\* C8's case: a lower value was rejected with a response, nothing was sent.
C8_Witness ==
    /\ spc = "done"
    /\ ~meterAuto
    /\ svalue < valueAtCall
    /\ sresp
    /\ sresult.code = -3
    /\ sends = 0

----------------------------------------------------------------------------
(* PescApi: the fetched indications and the meters property (pesc_api.py). *)
(* The strings the code builds and compares are sequences of character     *)
(* codes: "0".."9" are 48..57 and "_" is 95.                                *)

Underscore == 95
CodeOfZero == 48

\* str(n) of an integer n >= 0
RECURSIVE Digits(_)
Digits(n) ==
    IF n < 10 THEN <<CodeOfZero + n>>
    ELSE Digits(n \div 10) \o <<CodeOfZero + (n % 10)>>

\* a < b for Python strings: by code point, a proper prefix first
StrLess(a, b) ==
    \/ \E i \in 1..Len(a) :
        /\ i <= Len(b)
        /\ a[i] < b[i]
        /\ \A j \in 1..(i - 1) : a[j] = b[j]
    \/ /\ Len(a) < Len(b)
       /\ \A j \in 1..Len(a) : a[j] = b[j]

\* MeterInd.id: f"{self.meter.id}_{self.scale_id}"
IndId(x) == x.meter \o <<Underscore>> \o Digits(x.scale)

\* The sort key of the meters property: f"{x.account.id}_{x.id}"
SortKey(x) == Digits(x.acc) \o <<Underscore>> \o IndId(x)

\* sorted() is stable: x goes behind the elements whose key is not greater.
RECURSIVE InsertSorted(_, _)
InsertSorted(s, x) ==
    IF s = <<>> THEN <<x>>
    ELSE IF StrLess(SortKey(x), SortKey(Head(s))) THEN <<x>> \o s
    ELSE <<Head(s)>> \o InsertSorted(Tail(s), x)

RECURSIVE SortedByKey(_)
SortedByKey(s) ==
    IF s = <<>> THEN <<>>
    ELSE InsertSorted(SortedByKey(SubSeq(s, 1, Len(s) - 1)), s[Len(s)])

\* A bug: every indication is kept, duplicates of an id included.
DictPut_KeepAll(d, x) == Append(d, x)

\* meters[meter.id] = meter on a dict kept as the sequence of its values: a
\* known id keeps its place and gets the new value, a new id goes last.
DictPut(d, x) ==
    IF \E i \in 1..Len(d) : IndId(d[i]) = IndId(x)
    THEN [i \in 1..Len(d) |-> IF IndId(d[i]) = IndId(x) THEN x ELSE d[i]]
    ELSE Append(d, x)

RECURSIVE DictOf(_)
DictOf(s) ==
    IF s = <<>> THEN <<>>
    ELSE DictPut(DictOf(SubSeq(s, 1, Len(s) - 1)), s[Len(s)])

\* PescApi.meters
Meters(raw) == DictOf(SortedByKey(raw))

\* The accounts of the profile and the indications the provider may list for
\* one account: the meter with registration id "0" and its scales 2 and 3.
AccountIds == {1, 2, 10}

\* MeterInd: its account's id, its meter's registration id, its scale id.
MeterIndication(acc, meter, scale) ==
    [acc |-> acc, meter |-> meter, scale |-> scale]

\* The registration id "0".
Registration0 == <<CodeOfZero>>

MeterLists(acc) ==
    { <<>>,
      <<MeterIndication(acc, Registration0, 2)>>,
      <<MeterIndication(acc, Registration0, 2),
        MeterIndication(acc, Registration0, 3)>> }

\* async_fetch_data: the lists are cleared and, when the accounts request
\* answers, one _load_account task per account is started by gather.  The
\* tasks of the fetch before it, when that one failed, may still be running
\* (_reauth fetches again at once); older ones are over, an update cycle
\* makes two fetches at most and the next cycle is hours away.
FetchData ==
    /\ dataFetches < MaxDataFetches
    /\ \A task \in loading : task[1] = dataFetches
    /\ dataFetches' = dataFetches + 1
    /\ rawMeters' = <<>>
    /\ \E accounts \in SUBSET AccountIds :
        loading' = loading \cup { <<dataFetches + 1, a>> : a \in accounts }
    /\ UNCHANGED notApi

\* _load_meters: the meters request of one account answers and all its
\* indications are appended.
LoadMeters ==
    /\ \E task \in loading :
        /\ loading' = loading \ {task}
        /\ \E list \in MeterLists(task[2]) : rawMeters' = rawMeters \o list
    /\ UNCHANGED dataFetches
    /\ UNCHANGED notApi

\* _load_meters: the meters request of one account raises ClientError.
LoadMetersFail ==
    /\ \E task \in loading : loading' = loading \ {task}
    /\ UNCHANGED <<rawMeters, dataFetches>>
    /\ UNCHANGED notApi

ApiNext ==
    \/ FetchData
    \/ LoadMeters
    \/ LoadMetersFail

InitApi == ApiIdle /\ CoordIdle /\ FlowIdle /\ SensorIdle /\ TariffIdle
    /\ DetailIdle /\ UpdateIdle /\ InstIdle /\ FetchIdle /\ ClientIdle
    /\ TxIdle /\ ReauthIdle

SpecApi == InitApi /\ [][ApiNext]_vars

\* The indications of the raw list with the id of x.
SameId(raw, x) == { i \in 1..Len(raw) : IndId(raw[i]) = IndId(x) }

\* C5: PescApi.meters never holds two indications with the same id, every id
\* of the raw list is in it exactly once, and it holds nothing else.
C5_MetersUniqueAndComplete ==
    LET out == Meters(rawMeters)
    IN  /\ \A i, j \in 1..Len(out) : IndId(out[i]) = IndId(out[j]) => i = j
        /\ \A n \in 1..Len(rawMeters) :
            Cardinality({ i \in 1..Len(out) : IndId(out[i]) = IndId(rawMeters[n]) }) = 1
        /\ \A i \in 1..Len(out) : \E n \in 1..Len(rawMeters) : out[i] = rawMeters[n]

\* C5's case: the raw list holds the same id under two accounts, and more.
C5_Witness ==
    /\ \E m, n \in 1..Len(rawMeters) :
        /\ m # n
        /\ IndId(rawMeters[m]) = IndId(rawMeters[n])
        /\ rawMeters[m].acc # rawMeters[n].acc
    /\ Len(Meters(rawMeters)) >= 2
    /\ Len(Meters(rawMeters)) < Len(rawMeters)

\* C6: of the indications fetched with the same id under several accounts,
\* PescApi.meters keeps the one of the account with the greatest account id.
C6_KeepsGreatestAccount ==
    LET out == Meters(rawMeters)
    IN  \A i \in 1..Len(out) : \A n \in SameId(rawMeters, out[i]) :
            rawMeters[n].acc <= out[i].acc

----------------------------------------------------------------------------
(* Tariff.rate (pesc_api.py).  The Russian names of the code are written   *)
(* in Latin letters:                                                       *)
(*   "Elektroenergiya"         "Электроэнергия"                            *)
(*   "Dvukhtarifnyi"           "Двухтарифный"                              *)
(*   "Odnotarifnyi"            "Однотарифный"                              *)
(*   "Kholodnoe vodosnabzhenie" "Холодное водоснабжение"                   *)
(*   "Goryachee vodosnabzhenie" "Горячее водоснабжение"                    *)
(*   "GVS"                     "ГВС"                                       *)
(*   "Vodootvedenie KhVS"      "Водоотведение ХВС"                         *)
(*   "Vodootvedenie GVS"       "Водоотведение ГВС"                         *)
(*   "Den", "Noch"             "День", "Ночь"                              *)

TariffNames ==
    {"Elektroenergiya", "Kholodnoe vodosnabzhenie", "Goryachee vodosnabzhenie",
     "GVS", "Vodootvedenie KhVS", "Vodootvedenie GVS", "Gaz"}

TariffKinds == {"Dvukhtarifnyi", "Odnotarifnyi", "None"}

ScaleNames == {"Den", "Noch", ""}

ScaleIds == {1, 2, 3}

\* The rate lists: up to MaxRates rates, each with the name of a scale.
RateLists ==
    UNION { [1..n -> [name : ScaleNames]] : n \in 0..MaxRates }

\* A bug: "GVS" is missing from the list.
IsWater_WithoutGVS(name) ==
    name \in {"Kholodnoe vodosnabzhenie", "Goryachee vodosnabzhenie",
              "Vodootvedenie KhVS", "Vodootvedenie GVS"}

\* Tariff.rate, lines 157-163: the services billed by the first rate.
IsWater(name) ==
    name \in {"Kholodnoe vodosnabzhenie", "Goryachee vodosnabzhenie", "GVS",
              "Vodootvedenie KhVS", "Vodootvedenie GVS"}

\* A bug: the rates of the two scales are swapped.
ElectricityRate_Swapped(t, m) ==
    IF t.kind = "Dvukhtarifnyi" /\ Len(t.rates) = 2
    THEN CASE m.scale_id = 2 -> 2
           [] m.scale_id = 3 -> 1
           [] OTHER -> 0
    ELSE IF t.kind = "Odnotarifnyi" /\ Len(t.rates) = 2
    THEN 1
    ELSE 0

\* Tariff.rate, lines 170-184: the position of the rate the electricity
\* branch returns, 0 when it returns nothing and the code goes on.
ElectricityRate(t, m) ==
    IF t.kind = "Dvukhtarifnyi" /\ Len(t.rates) = 2
    THEN CASE m.scale_id = 2 -> 1
           [] m.scale_id = 3 -> 2
           [] OTHER -> 0
    ELSE IF t.kind = "Odnotarifnyi" /\ Len(t.rates) = 2
    THEN 1
    ELSE 0

\* The positions of the rates named like the indication's scale.
Matching(t, m) == { i \in 1..Len(t.rates) : t.rates[i].name = m.name }

\* The least element of a non-empty set of positions.
First(S) == CHOOSE i \in S : \A j \in S : i <= j

\* Tariff.rate
Rate(t, m) ==
    IF Len(t.rates) = 0 THEN RateNone
    ELSE IF IsWater(t.name) THEN RateAt(1)
    ELSE IF Matching(t, m) # {} THEN RateAt(First(Matching(t, m)))
    ELSE IF t.name = "Elektroenergiya" /\ ElectricityRate(t, m) # 0
    THEN RateAt(ElectricityRate(t, m))
    ELSE IF Len(t.rates) = 1 THEN RateAt(1)
    ELSE RateTypeError

TariffInit ==
    /\ tariff \in [name : TariffNames, kind : TariffKinds, rates : RateLists]
    /\ tmeter \in [name : ScaleNames, scale_id : ScaleIds]
    /\ trate = RatePending

\* tariff.rate(meter) is called.
CallRate ==
    /\ trate = RatePending
    /\ trate' = Rate(tariff, tmeter)
    /\ UNCHANGED <<tariff, tmeter>>
    /\ UNCHANGED notTariff

TariffNext == CallRate

InitTariff == TariffInit /\ CoordIdle /\ FlowIdle /\ SensorIdle /\ ApiIdle
    /\ DetailIdle /\ UpdateIdle /\ InstIdle /\ FetchIdle /\ ClientIdle
    /\ TxIdle /\ ReauthIdle

SpecTariff == InitTariff /\ [][TariffNext]_vars

\* C9: for the tariff "Elektroenergiya" of kind "Dvukhtarifnyi" with exactly
\* two rates, rate() returns the first rate for scale id 2 and the second for
\* scale id 3 when no rate is named like the indication's scale, and the
\* first rate named like it, whatever the scale id, when there is one.
C9_TwoRateElectricity ==
    trate # RatePending /\ tariff.name = "Elektroenergiya"
        /\ tariff.kind = "Dvukhtarifnyi" /\ Len(tariff.rates) = 2
    => IF \A i \in 1..2 : tariff.rates[i].name # tmeter.name
       THEN /\ (tmeter.scale_id = 2 => trate = RateAt(1))
            /\ (tmeter.scale_id = 3 => trate = RateAt(2))
       ELSE /\ trate.kind = "rate"
            /\ tariff.rates[trate.pos].name = tmeter.name
            /\ \A i \in 1..(trate.pos - 1) : tariff.rates[i].name # tmeter.name

\* C9's case: no rate is named like the scale and scale id 3 gets the second.
C9_Witness ==
    /\ trate = RateAt(2)
    /\ tariff.name = "Elektroenergiya"
    /\ tariff.kind = "Dvukhtarifnyi"
    /\ Len(tariff.rates) = 2
    /\ \A i \in 1..2 : tariff.rates[i].name # tmeter.name
    /\ tmeter.scale_id = 3

\* C10: rate() returns None exactly when the tariff has no rates, and for a
\* tariff with a water service name and at least one rate it returns the
\* first rate whatever the indication's scale id and scale name.
C10_NoneAndWater ==
    trate # RatePending
    => /\ (trate = RateNone <=> Len(tariff.rates) = 0)
       /\ (Len(tariff.rates) >= 1
              /\ tariff.name \in {"Kholodnoe vodosnabzhenie",
                                  "Goryachee vodosnabzhenie", "GVS",
                                  "Vodootvedenie KhVS", "Vodootvedenie GVS"}
           => trate = RateAt(1))

\* C10's case: a water tariff whose second rate is named like the scale.
C10_Witness ==
    /\ trate = RateAt(1)
    /\ tariff.name = "GVS"
    /\ Len(tariff.rates) = 2
    /\ tariff.rates[1].name # tmeter.name
    /\ tariff.rates[2].name = tmeter.name
    /\ tmeter.scale_id = 3

----------------------------------------------------------------------------
(* PescApi.async_update_value (pesc_api.py) *)

\* MeterInd with its reading: account id, registration id, scale id, value.
MeterInd(acc, meter, scale, value) ==
    [acc |-> acc, meter |-> meter, scale |-> scale, value |-> value]

\* The registration id "1".
Registration1 == <<CodeOfZero + 1>>

\* The indications the account holds: two meters with the scales 2 and 3.
Indications ==
    { MeterInd(1, Registration0, 2, 7), MeterInd(1, Registration0, 3, 8),
      MeterInd(1, Registration1, 2, 9), MeterInd(1, Registration1, 3, 7) }

\* A set of indications as a list, in some order.
RECURSIVE ListOf(_)
ListOf(S) ==
    IF S = {} THEN <<>>
    ELSE LET x == CHOOSE y \in S : TRUE IN <<x>> \o ListOf(S \ {x})

\* pesc_client.UpdateValuePayload
UpdateValuePayload(scaleId, value) == [scaleId |-> scaleId, value |-> value]

\* What a caller may put into values: a scale id (1 is no scale of these
\* meters) and a reading.
Entries == { UpdateValuePayload(s, v) : s \in {1, 2, 3}, v \in {1, 2} }

\* [mtr for mtr in self.meters if mtr.meter.id == meter.meter.id]
SameMeter(all, meter) == SelectSeq(all, LAMBDA mtr : mtr.meter = meter.meter)

\* [val for val in values if mtr.scale_id == val["scaleId"]]
Found(values, mtr) == SelectSeq(values, LAMBDA val : mtr.scale = val.scaleId)

\* A bug: the known value is appended whether or not the scale is supplied.
Completed_NoFoundCheck(values, meters) ==
    values \o [i \in 1..Len(meters) |->
                  UpdateValuePayload(meters[i].scale, meters[i].value)]

\* The loop over the meter's indications: the known value of a scale that
\* values does not name is appended.
RECURSIVE Completed(_, _)
Completed(values, meters) ==
    IF meters = <<>> THEN values
    ELSE Completed(IF Found(values, Head(meters)) = <<>>
                   THEN Append(values,
                               UpdateValuePayload(Head(meters).scale,
                                                  Head(meters).value))
                   ELSE values,
                   Tail(meters))

\* async_update_value: the values handed to client.async_update_value.
Payload(all, meter, values) ==
    IF Len(values) # Len(SameMeter(all, meter))
    THEN Completed(values, SameMeter(all, meter))
    ELSE values

UpdateInit ==
    /\ updRaw \in { ListOf(S) : S \in SUBSET Indications }
    /\ updMeter = [acc |-> 0, meter |-> <<>>, scale |-> 0, value |-> 0]
    /\ updValues = <<>>
    /\ updSent = <<>>
    /\ updResult = "none"

\* PescApi.async_update_value(meter, values) for one of the meters property's
\* indications; the request is accepted or raises.
ApiUpdateValue ==
    /\ updResult = "none"
    /\ \E i \in 1..Len(Meters(updRaw)), values \in SeqUpTo(Entries, MaxEntries) :
        /\ updMeter' = Meters(updRaw)[i]
        /\ updValues' = values
        /\ updSent' = Payload(Meters(updRaw), Meters(updRaw)[i], values)
    /\ updResult' \in {"ok", "ClientAuthError", "ClientError"}
    /\ UNCHANGED updRaw
    /\ UNCHANGED notUpdate

InitUpdate ==
    UpdateInit /\ CoordIdle /\ FlowIdle /\ SensorIdle /\ ApiIdle /\ TariffIdle
        /\ DetailIdle /\ InstIdle /\ FetchIdle /\ ClientIdle /\ TxIdle
    /\ ReauthIdle

SpecUpdate == InitUpdate /\ [][ApiUpdateValue]_vars

\* The scale ids of the call's meter.
ScalesOf(all, meter) ==
    { all[i].scale : i \in { j \in 1..Len(all) : all[j].meter = meter.meter } }

\* The caller's entries name scales of the call's meter, each one once.
OwnDistinctScales ==
    /\ \A i \in 1..Len(updValues) :
          updValues[i].scaleId \in ScalesOf(Meters(updRaw), updMeter)
    /\ \A i, j \in 1..Len(updValues) :
          updValues[i].scaleId = updValues[j].scaleId => i = j

----------------------------------------------------------------------------
(* PescApi._load_tariffs and _process_tariff_detail (pesc_api.py).  The    *)
(* names of the content rows are written in Latin letters:                 *)
(*   "Tarifnaya stavka"  "Тарифная ставка"                                 *)
(*   "Tarif"             "Тариф"                                           *)
(*   "Tip tarifa"        "Тип тарифа"                                      *)
(* A text the code takes apart (str.replace, str.split, float) is a        *)
(* sequence of characters; so is every value find_any returns.             *)

RateEntry == "Tarifnaya stavka"
TariffEntry == "Tarif"
KindEntry == "Tip tarifa"

\* Python's None where a text is expected.
None == <<"None">>

\* The truth value of a text or None: "if rates := ...", "if kind := ...".
Truthy(v) == v # None /\ v # <<>>

\* find_any(json_list, res, key, val): the res field of the first row whose
\* key field is val, or None.
FindAny(json_list, res, key, val) ==
    LET hits == { i \in 1..Len(json_list) : json_list[i][key] = val }
    IN  IF hits = {} THEN None ELSE json_list[First(hits)][res]

\* find_named_val(json_list, key)
FindNamedVal(json_list, key) == FindAny(json_list, "value", "name", key)

\* str.replace(a, b) for single characters.
Replace(s, a, b) == [i \in 1..Len(s) |-> IF s[i] = a THEN b ELSE s[i]]

\* str.split(sep): the parts between the separators, empty parts included.
RECURSIVE Split(_, _)
Split(s, sep) ==
    IF \A i \in 1..Len(s) : s[i] # sep THEN <<s>>
    ELSE LET i == First({ j \in 1..Len(s) : s[j] = sep })
         IN  <<SubSeq(s, 1, i - 1)>> \o Split(SubSeq(s, i + 1, Len(s)), sep)

DigitChars == <<"0", "1", "2", "3", "4", "5", "6", "7", "8", "9">>

IsDigit(c) == \E d \in 1..Len(DigitChars) : DigitChars[d] = c

DigitValue(c) == (CHOOSE d \in 1..Len(DigitChars) : DigitChars[d] = c) - 1

\* The number a run of digits stands for (0 for the empty run).
RECURSIVE Number(_)
Number(s) ==
    IF s = <<>> THEN 0
    ELSE 10 * Number(SubSeq(s, 1, Len(s) - 1)) + DigitValue(s[Len(s)])

\* float() raised ValueError.
ValueError == -1

\* float(text) for a text of digits with at most one "." and at most two
\* digits after it, in hundredths; ValueError for a text with no digit, with
\* a second "." or with any other character.
ToFloat(s) ==
    LET dots == { i \in 1..Len(s) : s[i] = "." }
        dot == IF dots = {} THEN Len(s) + 1 ELSE First(dots)
        whole == SubSeq(s, 1, dot - 1)
        frac == SubSeq(s, dot + 1, Len(s))
    IN  IF /\ \A i \in 1..Len(whole) : IsDigit(whole[i])
           /\ \A i \in 1..Len(frac) : IsDigit(frac[i])
           /\ Len(whole) + Len(frac) > 0
           /\ Len(frac) <= 2
        THEN 100 * Number(whole)
               + (IF Len(frac) = 1 THEN 10 ELSE 1) * Number(frac)
        ELSE ValueError

\* TariffRate(value, name, detail, description)
TariffRate(value, name, detail, description) ==
    [value |-> value, name |-> name, detail |-> detail,
     description |-> description]

\* The rates of a SOLID block: one for every part of the rates text.
SolidRates(rates) ==
    LET parts == Split(Replace(rates, ",", "."), "/")
    IN  [i \in 1..Len(parts) |-> TariffRate(ToFloat(parts[i]), "", <<>>, <<>>)]

\* The content rows a TABLE block takes its rates from.
RECURSIVE RateRows(_)
RateRows(content) ==
    IF content = <<>> THEN <<>>
    ELSE (IF Head(content).name # KindEntry THEN <<Head(content)>> ELSE <<>>)
            \o RateRows(Tail(content))

\* The rates of a TABLE block: one for every row but the "Tip tarifa" rows.
TableRates(detail) ==
    LET rows == RateRows(detail.content)
    IN  [i \in 1..Len(rows) |->
            TariffRate(ToFloat(rows[i].columns[1].value), rows[i].name,
                       rows[i].description,
                       FindAny(detail.columns, "name", "code",
                               rows[i].columns[1].code))]

\* Tariff(name, kind, rates)
Tariff(name, kind, rates) == [name |-> name, kind |-> kind, rates |-> rates]

\* What _process_tariff_detail does: raise (the ValueError of float) or
\* return, and the tariff it returns (none for None).
Yield(rates, t) ==
    IF \E i \in 1..Len(rates) : rates[i].value = ValueError
    THEN [exc |-> "ValueError", tariff |-> <<>>]
    ELSE [exc |-> "none", tariff |-> <<t>>]

NoTariff == [exc |-> "none", tariff |-> <<>>]

\* A bug: the block type is not looked at.
ProcessTariffDetail_AnyBlockType(detail) ==
    LET rates == FindNamedVal(detail.content, RateEntry)
        kind == FindNamedVal(detail.content, KindEntry)
    IN  IF Truthy(rates)
        THEN Yield(SolidRates(rates),
                   Tariff(detail.header,
                          FindNamedVal(detail.content, TariffEntry),
                          SolidRates(rates)))
        ELSE IF Truthy(kind)
        THEN Yield(TableRates(detail),
                   Tariff(detail.header, kind, TableRates(detail)))
        ELSE NoTariff

\* PescApi._process_tariff_detail
ProcessTariffDetail(detail) ==
    LET rates == FindNamedVal(detail.content, RateEntry)
        kind == FindNamedVal(detail.content, KindEntry)
    IN  IF detail.blockType = "SOLID" /\ Truthy(rates)
        THEN Yield(SolidRates(rates),
                   Tariff(detail.header,
                          FindNamedVal(detail.content, TariffEntry),
                          SolidRates(rates)))
        ELSE IF detail.blockType = "TABLE" /\ Truthy(kind)
        THEN Yield(TableRates(detail),
                   Tariff(detail.header, kind, TableRates(detail)))
        ELSE NoTariff

\* The texts of a "Tarifnaya stavka" row.
RateTexts == { <<>>, <<"1", ",", "2">>, <<"1", "/", "2">>, <<"1", "/">> }

KindText == <<"K">>

Row(name, value, description, columns) ==
    [name |-> name, value |-> value, description |-> description,
     columns |-> columns]

\* Rows of a SOLID block: a name and a value.
SolidRows ==
    { Row(RateEntry, v, <<>>, <<>>) : v \in RateTexts }
        \cup { Row(TariffEntry, KindText, <<>>, <<>>) }

\* Rows of a TABLE block: the "Tip tarifa" row has a value, the others a
\* description and columns with a code and a value.
TableRows ==
    { Row(KindEntry, v, <<>>, <<>>) : v \in {<<>>, KindText} }
        \cup { Row("Den", <<>>, <<"7">>, <<[code |-> "T1", value |-> <<"1">>]>>),
               Row("Noch", <<>>, <<"2", "3">>,
                   <<[code |-> "T2", value |-> <<"2">>]>>) }

\* detail["columns"] of a block.
Columns == <<[code |-> "T1", name |-> <<"R">>]>>

\* The blocks async_details may list.
Details ==
    [blockType : {"SOLID", "TABLE", "IMAGE"},
     header : {"Gaz"},
     columns : {Columns},
     content : SeqUpTo(SolidRows, MaxSolidRows) \cup SeqUpTo(TableRows, MaxTableRows)]

\* _load_tariffs(acc): the request; a ClientError is passed over.
LoadTariffsRequest ==
    /\ detailResult = "none"
    /\ \E outcome \in {"ok", "auth_error", "client_error"} :
        detailResult' = IF outcome = "ok" THEN "loading" ELSE "passed"
    /\ UNCHANGED <<tariffs, lastDetail, yielded, detailAcc, detailCount>>
    /\ UNCHANGED notDetail

\* self._tariffs[acc.id].append(tariff), with the list made on first use.
Append1(d, acc, t) ==
    DictSet(d, acc, (IF acc \in DOMAIN d THEN d[acc] ELSE <<>>) \o <<t>>)

\* _load_tariffs(acc): one round of the loop over the blocks.
LoadTariffsDetail ==
    /\ detailResult = "loading"
    /\ detailCount < MaxDetails
    /\ \E d \in Details :
        /\ lastDetail' = d
        /\ yielded' = ProcessTariffDetail(d)
        /\ tariffs' = IF yielded'.tariff # <<>>
                      THEN Append1(tariffs, detailAcc, yielded'.tariff[1])
                      ELSE tariffs
        /\ detailResult' = IF yielded'.exc = "none" THEN "loading"
                           ELSE yielded'.exc
    /\ detailCount' = detailCount + 1
    /\ UNCHANGED detailAcc
    /\ UNCHANGED notDetail

\* _load_tariffs(acc): the blocks are used up.
LoadTariffsEnd ==
    /\ detailResult = "loading"
    /\ detailResult' = "done"
    /\ UNCHANGED <<tariffs, lastDetail, yielded, detailAcc, detailCount>>
    /\ UNCHANGED notDetail

DetailNext ==
    \/ LoadTariffsRequest
    \/ LoadTariffsDetail
    \/ LoadTariffsEnd

InitDetail ==
    DetailIdle /\ CoordIdle /\ FlowIdle /\ SensorIdle /\ ApiIdle /\ TariffIdle
    /\ UpdateIdle /\ InstIdle /\ FetchIdle /\ ClientIdle /\ TxIdle
    /\ ReauthIdle

SpecDetail == InitDetail /\ [][DetailNext]_vars

\* The block has a non-empty row of that name.
HasEntry(d, name) ==
    \E i \in 1..Len(d.content) :
        d.content[i].name = name /\ d.content[i].value # <<>>

\* The tariffs stored for the account.
StoredFor(acc) == IF acc \in DOMAIN tariffs THEN tariffs[acc] ELSE <<>>

\* The rows of the block that are not "Tip tarifa" rows, by position.
RatePositions(d) == { i \in 1..Len(d.content) : d.content[i].name # KindEntry }

\* The rates of a tariff made from a SOLID block: one for every part of the
\* rates text (one more than it has "/"), with empty names.
SolidShaped(d, t) ==
    LET text == d.content[First({ i \in 1..Len(d.content) :
                                    d.content[i].name = RateEntry })].value
    IN  /\ Len(t.rates) = 1 + Cardinality({ i \in 1..Len(text) : text[i] = "/" })
        /\ \A i \in 1..Len(t.rates) : t.rates[i].name = ""

\* The rates of a tariff made from a TABLE block: one for every row that is
\* not a "Tip tarifa" row, in the order of the rows, named by its row.
TableShaped(d, t) ==
    /\ Len(t.rates) = Cardinality(RatePositions(d))
    /\ \A i \in RatePositions(d) :
          t.rates[Cardinality({ j \in RatePositions(d) : j <= i })].name
              = d.content[i].name

\* C11: _process_tariff_detail yields a tariff only for a SOLID block with a
\* non-empty "Tarifnaya stavka" row (one rate per "/"-separated part, with
\* empty names) or for a TABLE block with a non-empty "Tip tarifa" row (one
\* rate per row other than the "Tip tarifa" rows, in order, named by its row);
\* any other block yields no tariff, and _load_tariffs stores a block's
\* tariff for the account exactly when the block yielded one.
C11_TariffOnlyFromSolidOrTable ==
    /\ [](detailCount > 0
          => LET solid == lastDetail.blockType = "SOLID"
                              /\ HasEntry(lastDetail, RateEntry)
                 table == lastDetail.blockType = "TABLE"
                              /\ HasEntry(lastDetail, KindEntry)
             IN  /\ (~solid /\ ~table => yielded = NoTariff)
                 /\ (yielded.tariff # <<>> /\ solid
                        => SolidShaped(lastDetail, yielded.tariff[1]))
                 /\ (yielded.tariff # <<>> /\ table
                        => TableShaped(lastDetail, yielded.tariff[1])))
    /\ [][detailCount' > detailCount
            => IF yielded'.tariff = <<>>
               THEN tariffs' = tariffs
               ELSE /\ DOMAIN tariffs' = DOMAIN tariffs \cup {detailAcc}
                    /\ tariffs'[detailAcc]
                          = StoredFor(detailAcc) \o yielded'.tariff]_vars

\* C11's case: a TABLE block whose "Tip tarifa" row stands between two rate
\* rows gave a tariff with the two rates, and it is stored for the account.
C11_Witness ==
    /\ detailCount > 0
    /\ lastDetail.blockType = "TABLE"
    /\ Len(lastDetail.content) = 3
    /\ lastDetail.content[1].name = "Den"
    /\ lastDetail.content[2].name = KindEntry
    /\ lastDetail.content[3].name = "Noch"
    /\ yielded.tariff # <<>>
    /\ Len(yielded.tariff[1].rates) = 2
    /\ yielded.tariff[1].rates[2].name = "Noch"
    /\ StoredFor(detailAcc) = yielded.tariff

----------------------------------------------------------------------------
(* Two PescApi instances (pesc_api.py): _profile, _meters, _groups,        *)
(* _tariffs and _subservices are attributes of the class; an instance      *)
(* gets an attribute of its own only by an assignment to self.<name>.      *)

\* One PescApi per config entry: instance i is logged in as the user who
\* holds the account i.
Instances == {1, 2}

\* self.<name>: the instance's attribute when it has one, else the class's.
Attr(i, name) ==
    IF name \in DOMAIN instAttrs[i] THEN instAttrs[i][name]
    ELSE classAttrs[name]

\* The class attributes after instance i changed, in place, the objects
\* that self.<name> stands for (clear, append, item assignment).
ClassAfter(i, changed) ==
    [n \in DOMAIN classAttrs |->
        IF n \in DOMAIN changed /\ n \notin DOMAIN instAttrs[i]
        THEN changed[n] ELSE classAttrs[n]]

\* The attributes of the instances after the same change.
InstAfter(i, changed) ==
    [instAttrs EXCEPT ![i] =
        [n \in DOMAIN @ |-> IF n \in DOMAIN changed THEN changed[n] ELSE @[n]]]

\* A dict with the one key k.
Only(k, v) == [x \in {k} |-> v]

\* async_fetch_profile: self._profile = ... makes an attribute of the instance.
InstFetchProfile ==
    /\ \E i \in Instances :
        /\ "profile" \notin DOMAIN instAttrs[i]
        /\ instAttrs' = [instAttrs EXCEPT ![i] = DictSet(@, "profile", "user")]
        /\ actor' = i
    /\ UNCHANGED <<classAttrs, instTasks, instFetches>>
    /\ UNCHANGED notInst

\* async_fetch_data: clear() on self._meters, self._groups, self._tariffs and
\* self._subservices, then _load_account for the user's account begins with
\* its gathered steps.
InstFetchData ==
    /\ instFetches < MaxInstFetches
    /\ \E i \in Instances :
        /\ \A task \in instTasks : task[1] # i
        /\ LET cleared == [meters |-> <<>>, groups |-> <<>>, tariffs |-> <<>>,
                           subservices |-> {}]
           IN  /\ classAttrs' = ClassAfter(i, cleared)
               /\ instAttrs' = InstAfter(i, cleared)
        /\ instTasks' = instTasks \cup {<<i, "meters">>, <<i, "tariffs">>}
        /\ actor' = i
    /\ instFetches' = instFetches + 1
    /\ UNCHANGED notInst

\* The subservice id of every meter, and the tariff of every account.
SubserviceId == 5
AccountTariff == [name |-> "Gaz", kind |-> "None", rates |-> <<>>]

\* _load_account: when both gathered steps are over, _load_subservices is next.
TasksAfter(i, step) ==
    IF \E task \in instTasks \ {<<i, step>>} : task[1] = i
    THEN instTasks \ {<<i, step>>}
    ELSE (instTasks \ {<<i, step>>}) \cup {<<i, "subservices">>}

\* _load_meters: self._meters.append(ind) for the account's indication.
InstLoadMeters ==
    /\ \E i \in Instances :
        /\ <<i, "meters">> \in instTasks
        /\ LET changed == Only("meters",
                              Append(Attr(i, "meters"),
                                     MeterIndication(i, Registration0, 2)))
           IN  /\ classAttrs' = ClassAfter(i, changed)
               /\ instAttrs' = InstAfter(i, changed)
        /\ instTasks' = TasksAfter(i, "meters")
        /\ actor' = i
    /\ UNCHANGED instFetches
    /\ UNCHANGED notInst

\* _load_tariffs: self._tariffs[acc.id] = [] and append(tariff).
InstLoadTariffs ==
    /\ \E i \in Instances :
        /\ <<i, "tariffs">> \in instTasks
        /\ LET changed == Only("tariffs",
                              Append1(Attr(i, "tariffs"), i, AccountTariff))
           IN  /\ classAttrs' = ClassAfter(i, changed)
               /\ instAttrs' = InstAfter(i, changed)
        /\ instTasks' = TasksAfter(i, "tariffs")
        /\ actor' = i
    /\ UNCHANGED instFetches
    /\ UNCHANGED notInst

\* _load_subservices: the subservice is stored when a meter in self._meters
\* refers to it (every meter here does).
InstLoadSubservices ==
    /\ \E i \in Instances :
        /\ <<i, "subservices">> \in instTasks
        /\ LET changed == Only("subservices",
                              IF Attr(i, "meters") # <<>>
                              THEN Attr(i, "subservices") \cup {SubserviceId}
                              ELSE Attr(i, "subservices"))
           IN  /\ classAttrs' = ClassAfter(i, changed)
               /\ instAttrs' = InstAfter(i, changed)
        /\ instTasks' = instTasks \ {<<i, "subservices">>}
        /\ actor' = i
    /\ UNCHANGED instFetches
    /\ UNCHANGED notInst

InstNext ==
    \/ InstFetchProfile
    \/ InstFetchData
    \/ InstLoadMeters
    \/ InstLoadTariffs
    \/ InstLoadSubservices

InitInst ==
    InstIdle /\ CoordIdle /\ FlowIdle /\ SensorIdle /\ ApiIdle /\ TariffIdle
        /\ DetailIdle /\ UpdateIdle /\ FetchIdle /\ ClientIdle /\ TxIdle
    /\ ReauthIdle

SpecInst == InitInst /\ [][InstNext]_vars

\* What an instance returns: its meters property, _tariffs, _subservices.
DataOf(i) ==
    [meters |-> Meters(Attr(i, "meters")), tariffs |-> Attr(i, "tariffs"),
     subservices |-> Attr(i, "subservices")]

\* C15: a step of async_fetch_data on one instance (its clear, a load of its
\* account) leaves the meters, tariffs and subservices that every other
\* instance returns as they were.
C15_InstancesIndependent ==
    [][\A j \in Instances : j # actor' => DataOf(j)' = DataOf(j)]_vars

----------------------------------------------------------------------------
(* PescApi.async_fetch_data, request by request (pesc_api.py): the accounts *)
(* request, then one _load_account per account, all gathered; a            *)
(* _load_account gathers four requests and asks for the subservices when   *)
(* the four are over.                                                      *)

\* Two accounts of the same service provider.
FetchAccounts == {1, 2}

\* The requests _load_account gathers.
Gathered == {"reading_type", "address", "meters", "tariffs"}

\* Every request of a fetch; the accounts request belongs to no account.
AccountsRequest == <<0, "accounts">>
FetchRequests ==
    {AccountsRequest} \cup (FetchAccounts \X (Gathered \cup {"subservices"}))

\* The server accepts a request (status 200), rejects it as unauthenticated
\* (another status, code 5 in the body) or fails it (another status).
ServerAnswers == {"ok", "auth_rejected", "failed"}

\* What _async_response_json raises for an answer.
ErrorOf(answer) ==
    CASE answer = "auth_rejected" -> "ClientAuthError"
      [] answer = "failed" -> "ClientError"
      [] OTHER -> "none"

\* What a step of the fetch raises for the answer to its request:
\* async_reading_type returns the body's text whatever the status, and
\* _load_tariffs and _load_subservices catch ClientError, which
\* ClientAuthError is a subclass of.
Raises(step, answer) ==
    IF step \in {"reading_type", "tariffs", "subservices"} THEN "none"
    ELSE ErrorOf(answer)

\* The meter of each account and the subservice it belongs to.
MeterOf(acc) == [acc |-> acc, subservice_id |-> 4 + acc]

\* The ids of the subservices the provider of both accounts lists.
Listed == {5, 6, 9}

\* A bug: every listed subservice is stored.
Required_All(listed, meters) == listed

\* _load_subservices: the listed subservices a meter in _meters refers to.
Required(listed, meters) ==
    { id \in listed : \E meter \in meters : meter.subservice_id = id }

\* async_fetch_data: the containers are cleared, the accounts are asked for.
FetchBegin ==
    /\ fphase = "idle"
    /\ fphase' = "accounts"
    /\ answers' = [r \in FetchRequests |->
                      IF r = AccountsRequest THEN "wait" ELSE "-"]
    /\ accState' = [a \in FetchAccounts |-> "-"]
    /\ fmeters' = {}
    /\ fsubs' = {}
    /\ UNCHANGED fexc
    /\ UNCHANGED notFetch

\* The accounts request is answered: the _load_account tasks start, or
\* async_fetch_data raises.
FetchAccountsAnswer ==
    /\ fphase = "accounts"
    /\ \E answer \in ServerAnswers :
        IF answer = "ok"
        THEN /\ fphase' = "loading"
             /\ fexc' = fexc
             /\ answers' = [r \in FetchRequests |->
                               IF r = AccountsRequest THEN answer
                               ELSE IF r[2] \in Gathered THEN "wait" ELSE "-"]
             /\ accState' = [a \in FetchAccounts |-> "gather"]
        ELSE /\ fphase' = "raised"
             /\ fexc' = ErrorOf(answer)
             /\ answers' = [answers EXCEPT ![AccountsRequest] = answer]
             /\ accState' = accState
    /\ UNCHANGED <<fmeters, fsubs>>
    /\ UNCHANGED notFetch

\* One of the gathered requests of an account is answered.  The first step
\* that raises ends its _load_account, and the first _load_account that
\* raises ends async_fetch_data; gather lets the other steps run on.  When
\* the four steps are over and none raised, the subservices are asked for.
GatheredAnswer(acc, step, answer) ==
    LET exc == Raises(step, answer)
        over == \A other \in Gathered \ {step} :
                    answers[<<acc, other>>] \notin {"wait", "-"}
    IN  /\ fphase # "idle"
        /\ answers[<<acc, step>>] = "wait"
        /\ IF accState[acc] = "gather" /\ exc # "none"
           THEN /\ accState' = [accState EXCEPT ![acc] = "raised"]
                /\ answers' = [answers EXCEPT ![<<acc, step>>] = answer]
                /\ IF fphase = "loading"
                   THEN fphase' = "raised" /\ fexc' = exc
                   ELSE UNCHANGED <<fphase, fexc>>
           ELSE IF accState[acc] = "gather" /\ over
           THEN /\ accState' = [accState EXCEPT ![acc] = "subservices"]
                /\ answers' = [answers EXCEPT ![<<acc, step>>] = answer,
                                              ![<<acc, "subservices">>] = "wait"]
                /\ UNCHANGED <<fphase, fexc>>
           ELSE /\ answers' = [answers EXCEPT ![<<acc, step>>] = answer]
                /\ UNCHANGED <<accState, fphase, fexc>>

\* _load_reading_types
FetchReadingType ==
    /\ \E acc \in FetchAccounts, answer \in ServerAnswers :
        GatheredAnswer(acc, "reading_type", answer)
    /\ UNCHANGED <<fmeters, fsubs>>
    /\ UNCHANGED notFetch

\* _load_address
FetchAddress ==
    /\ \E acc \in FetchAccounts, answer \in ServerAnswers :
        GatheredAnswer(acc, "address", answer)
    /\ UNCHANGED <<fmeters, fsubs>>
    /\ UNCHANGED notFetch

\* _load_meters: the account's meter is appended to _meters.
FetchMeters ==
    /\ \E acc \in FetchAccounts, answer \in ServerAnswers :
        /\ GatheredAnswer(acc, "meters", answer)
        /\ fmeters' = IF answer = "ok" THEN fmeters \cup {MeterOf(acc)}
                      ELSE fmeters
    /\ UNCHANGED fsubs
    /\ UNCHANGED notFetch

\* _load_tariffs
FetchTariffs ==
    /\ \E acc \in FetchAccounts, answer \in ServerAnswers :
        GatheredAnswer(acc, "tariffs", answer)
    /\ UNCHANGED <<fmeters, fsubs>>
    /\ UNCHANGED notFetch

\* _load_subservices: the required subservices are stored; an error is
\* logged.  With the last _load_account over, async_fetch_data returns.
FetchSubservices ==
    /\ \E acc \in FetchAccounts, answer \in ServerAnswers :
        /\ fphase # "idle"
        /\ answers[<<acc, "subservices">>] = "wait"
        /\ answers' = [answers EXCEPT ![<<acc, "subservices">>] = answer]
        /\ fsubs' = IF answer = "ok" THEN fsubs \cup Required(Listed, fmeters)
                    ELSE fsubs
        /\ accState' = [accState EXCEPT ![acc] = "done"]
        /\ fphase' = IF fphase = "loading"
                          /\ \A other \in FetchAccounts \ {acc} :
                                accState[other] = "done"
                     THEN "returned" ELSE fphase
    /\ UNCHANGED <<fmeters, fexc>>
    /\ UNCHANGED notFetch

FetchNext ==
    \/ FetchBegin
    \/ FetchAccountsAnswer
    \/ FetchReadingType
    \/ FetchAddress
    \/ FetchMeters
    \/ FetchTariffs
    \/ FetchSubservices

InitFetch ==
    FetchIdle /\ CoordIdle /\ FlowIdle /\ SensorIdle /\ ApiIdle /\ TariffIdle
        /\ DetailIdle /\ UpdateIdle /\ InstIdle /\ ClientIdle /\ TxIdle
    /\ ReauthIdle

SpecFetch == InitFetch /\ [][FetchNext]_vars

\* Every stored subservice is referred to by a meter in _meters.
OnlyRequiredStored ==
    \A id \in fsubs : \E meter \in fmeters : meter.subservice_id = id

\* C12 as it is worded: once async_fetch_data has returned, every stored
\* subservice is referred to by a loaded meter, and every loaded meter whose
\* subservice is listed in a successful subservices response for its
\* account's provider (here the provider of both accounts) has it stored.
C12_StoredForAnyResponse ==
    /\ OnlyRequiredStored
    /\ (fphase = "returned"
        => \A meter \in fmeters :
              /\ \E acc \in FetchAccounts : answers[<<acc, "subservices">>] = "ok"
              /\ meter.subservice_id \in Listed
              => meter.subservice_id \in fsubs)

\* C12, amended: at every moment every stored subservice is referred to by
\* a loaded meter, and once async_fetch_data has returned every loaded meter
\* whose subservice is listed in the successful response to the subservices
\* request of its own account has it stored, whatever the order in which the
\* requests of the accounts were answered.
C12_StoredForOwnResponse ==
    /\ OnlyRequiredStored
    /\ (fphase = "returned"
        => \A meter \in fmeters :
              /\ answers[<<meter.acc, "subservices">>] = "ok"
              /\ meter.subservice_id \in Listed
              => meter.subservice_id \in fsubs)

\* C12's case: the subservices of account 1 were answered before the meter
\* of account 2 was loaded, and the request of account 2 failed; the meter of
\* account 1 has its subservice, the unreferenced one is not stored.
C12_Witness ==
    /\ fphase = "returned"
    /\ fmeters = {MeterOf(1), MeterOf(2)}
    /\ answers[<<1, "subservices">>] = "ok"
    /\ answers[<<2, "subservices">>] = "failed"
    /\ fsubs = {MeterOf(1).subservice_id}

\* C13: when the server rejects a request of the fetch as unauthenticated
\* (and fails none otherwise), async_fetch_data raises ClientAuthError.
C13_AuthRejectionRaises ==
    fphase \in {"returned", "raised"}
        /\ (\E r \in FetchRequests : answers[r] = "auth_rejected")
        /\ (\A r \in FetchRequests : answers[r] # "failed")
    => fphase = "raised" /\ fexc = "ClientAuthError"

\* ======================================================================
\* PescClient: response classification, stored credentials and the
\* Authorization header (pesc_client.py)
\* ======================================================================

\* Python values the client handles.  None also stands for a header that is
\* not in the headers dict.
NoneValue == [type |-> "NoneType"]

JInt(n) == [type |-> "int", val |-> n]

\* A str, as its sequence of characters.
JStr(chars) == [type |-> "str", val |-> chars]

\* A dict, as its set of <<key, value>> items.
JDict(items) == [type |-> "dict", items |-> items]

\* The characters of the dict keys the client looks up.
Chars(key) ==
    CASE key = "auth" -> <<"a", "u", "t", "h">>
      [] key = "verified" -> <<"v", "e", "r", "i", "f", "i", "e", "d">>
      [] key = "code" -> <<"c", "o", "d", "e">>

\* needle is a substring of hay.
Within(needle, hay) ==
    \E i \in 0..(Len(hay) - Len(needle)) :
        SubSeq(hay, i + 1, i + Len(needle)) = needle

\* `key in obj`: key membership for a dict, substring for a str.
In(key, obj) ==
    CASE obj.type = "dict" -> \E it \in obj.items : it[1] = key
      [] obj.type = "str" -> Within(Chars(key), obj.val)

\* obj[key] of a dict that has the key.
Item(obj, key) == (CHOOSE it \in obj.items : it[1] = key)[2]

\* bool(obj): None, the empty dict and the empty str are false.
Bool(obj) ==
    CASE obj.type = "NoneType" -> FALSE
      [] obj.type = "dict" -> obj.items # {}
      [] obj.type = "str" -> obj.val # <<>>
      [] obj.type = "int" -> obj.val # 0

\* int(v) of an int or of a str of digits.
IntOf(v) == IF v.type = "int" THEN v.val ELSE Number(v.val)

BearerPrefix == <<"B", "e", "a", "r", "e", "r", " ">>

\* f"Bearer {token}"
Bearer(token) == JStr(BearerPrefix \o token.val)

\* The token the client is constructed with and the token the server issues.
StoredToken == JStr(<<"t", "1">>)

IssuedToken == JStr(<<"t", "2">>)

VerifiedToken == JStr(<<"v", "1">>)

\* UserAuth dicts around an auth token: every subset of the keys auth and
\* verified.
UserAuthDicts(token) ==
    {JDict({}),
     JDict({<<"auth", token>>}),
     JDict({<<"verified", VerifiedToken>>}),
     JDict({<<"auth", token>>, <<"verified", VerifiedToken>>})}

\* Error bodies: {"code": ...}, the code as a number or as its text.
ErrorBodies ==
    {JDict({<<"code", c>>}) : c \in {JInt(5), JStr(<<"5">>), JInt(3)}}

JsonType == "application/json"

Statuses == {200, 401, 404, 424}

\* The responses of the server: status, content type and the body as
\* result.json() parses it.  A body that is not served as JSON is either
\* empty or the text of an error body.
Responses ==
    [type : {"response"}, status : Statuses, content_type : {JsonType},
     body : UserAuthDicts(IssuedToken) \cup ErrorBodies]
    \cup
    [type : {"response"}, status : Statuses, content_type : {"text/html"},
     body : {JDict({}), JDict({<<"code", JInt(5)>>})}]

\* Outcomes of a call: a returned value or a raised exception with its code.
Returned(value) == [exc |-> "none", code |-> NoneValue, value |-> value]

Raise(exc, code) == [exc |-> exc, code |-> code, value |-> NoneValue]

\* ClientError.code of ClientError(info, json): json.get("code", -1).
CodeOf(json) == IF In("code", json) THEN Item(json, "code") ELSE JInt(-1)

\* Checks the body before the status: an error body with code 5 is an
\* authentication error whatever the status.
AsyncResponseJson_BodyFirst(result, empty_body_request) ==
    IF /\ result.content_type = JsonType
       /\ In("code", result.body)
       /\ IntOf(Item(result.body, "code")) = 5
    THEN Raise("ClientAuthError", CodeOf(result.body))
    ELSE IF result.status # 200
    THEN Raise("ClientError", JInt(result.status))
    ELSE IF empty_body_request THEN Returned(NoneValue)
    ELSE IF result.content_type = JsonType THEN Returned(result.body)
    ELSE Returned(JDict({}))

\* PescClient._async_response_json.  result.json() raises ContentTypeError
\* with the status of the response when the content type is not
\* application/json; the except clause turns it into a ClientError.
AsyncResponseJson(result, empty_body_request) ==
    IF result.status # 200
    THEN IF result.status = 404
         THEN Raise("ClientError", JInt(404))
         ELSE IF result.content_type # JsonType
         THEN Raise("ClientError", JInt(result.status))
         ELSE IF /\ In("code", result.body)
                 /\ IntOf(Item(result.body, "code")) = 5
         THEN Raise("ClientAuthError", CodeOf(result.body))
         ELSE Raise("ClientError", CodeOf(result.body))
    ELSE IF empty_body_request THEN Returned(NoneValue)
    ELSE IF result.content_type = JsonType THEN Returned(result.body)
    ELSE Returned(JDict({}))

\* The record of a call: its credentials argument, whether a request went
\* out, its Authorization and Auth-verification headers, the response and
\* the outcome.
Call(name, arg, sent, authorization, verification, result, empty, outcome) ==
    [call |-> name, arg |-> arg, sent |-> sent,
     authorization |-> authorization, verification |-> verification,
     result |-> result, empty_body_request |-> empty,
     exc |-> outcome.exc, code |-> outcome.code, value |-> outcome.value]

\* PescClient._updata_auth: the credentials are replaced; the header only
\* when they have an auth token.
UpdataAuth(auth) ==
    /\ clientAuth' = auth
    /\ headerAuth' = IF In("auth", auth)
                     THEN Bearer(Item(auth, "auth")) ELSE headerAuth

\* The arguments PescClient is constructed with: none, a UserAuth dict, or,
\* by the coordinator, the token string of the config entry.
ConstructorArgs ==
    {NoneValue} \cup UserAuthDicts(StoredToken) \cup {StoredToken}

\* PescClient.__init__
ClientInit ==
    \E auth \in ConstructorArgs :
        /\ clientAuth = auth
        /\ headerAuth = IF Bool(auth) /\ In("auth", auth)
                        THEN Bearer(Item(auth, "auth")) ELSE NoneValue
        /\ clientLast = Call("none", NoneValue, FALSE, NoneValue, NoneValue, NoneValue,
                             FALSE, Raise("none", NoneValue))

\* PescClient._async_get: a request with the client's headers.
ClientGet ==
    \E result \in Responses :
        /\ clientLast' = Call("get", NoneValue, TRUE, headerAuth, NoneValue, result,
                              FALSE, AsyncResponseJson(result, FALSE))
        /\ UNCHANGED <<clientAuth, headerAuth>>
        /\ UNCHANGED notClient

\* PescClient.async_update_value: an empty-body request.
ClientUpdateValue ==
    \E result \in Responses :
        /\ clientLast' = Call("update_value", NoneValue, TRUE, headerAuth, NoneValue,
                              result, TRUE, AsyncResponseJson(result, TRUE))
        /\ UNCHANGED <<clientAuth, headerAuth>>
        /\ UNCHANGED notClient

\* PescClient.async_login: the request goes out without the Authorization
\* header; the answer is installed before its auth token is read.
ClientLogin ==
    \E result \in Responses :
        LET o == AsyncResponseJson(result, FALSE) IN
        /\ IF o.exc # "none"
           THEN /\ clientLast' = Call("login", NoneValue, TRUE, NoneValue, NoneValue,
                                      result, FALSE, o)
                /\ UNCHANGED <<clientAuth, headerAuth>>
           ELSE /\ UpdataAuth(o.value)
                /\ clientLast' =
                       Call("login", NoneValue, TRUE, NoneValue, NoneValue, result, FALSE,
                            IF In("auth", o.value)
                            THEN Returned(Item(o.value, "auth"))
                            ELSE Raise("KeyError", NoneValue))
        /\ UNCHANGED notClient

\* Takes status 200 for a success as well.
UsersAuth_Accepts200(result) ==
    IF result.status \notin {200, 424}
    THEN Raise("ClientError", JInt(result.status))
    ELSE IF result.content_type # JsonType
    THEN Raise("ContentTypeError", JInt(result.status))
    ELSE Returned(result.body)

\* The outcome of PescClient.async_users_auth: only status 424 is a success.
\* The ClientError carries the status as its code (the bodies modelled here
\* have no message to replace it).
UsersAuth(result) ==
    IF result.status # 424
    THEN Raise("ClientError", JInt(result.status))
    ELSE IF result.content_type # JsonType
    THEN Raise("ContentTypeError", JInt(result.status))
    ELSE Returned(result.body)

\* PescClient.async_users_auth: the request goes out without the
\* Authorization header; the client's credentials are not touched.
ClientUsersAuth ==
    \E result \in Responses :
        /\ clientLast' = Call("users_auth", NoneValue, TRUE, NoneValue,
                              NoneValue, result, FALSE, UsersAuth(result))
        /\ UNCHANGED <<clientAuth, headerAuth>>
        /\ UNCHANGED notClient

\* PescClient.can_reauth
CanReauth(auth) == In("verified", auth)

\* Installs every JSON answer, whatever its status.
UsersReauth_InstallAnyAnswer(auth, result) ==
    IF ~CanReauth(auth)
    THEN [sent |-> FALSE, install |-> FALSE,
          outcome |-> Raise("ClientAuthError", JInt(-1))]
    ELSE IF result.content_type # JsonType
    THEN [sent |-> TRUE, install |-> FALSE,
          outcome |-> Raise("ContentTypeError", JInt(result.status))]
    ELSE IF result.status # 200
    THEN [sent |-> TRUE, install |-> TRUE,
          outcome |-> Raise("ClientError", JInt(result.status))]
    ELSE [sent |-> TRUE, install |-> TRUE, outcome |-> Returned(result.body)]

\* PescClient.async_users_reauth, as whether a request is sent, whether the
\* answer is installed by _updata_auth, and the outcome.
UsersReauth(auth, result) ==
    IF ~CanReauth(auth)
    THEN [sent |-> FALSE, install |-> FALSE,
          outcome |-> Raise("ClientAuthError", JInt(-1))]
    ELSE IF result.status # 200
    THEN [sent |-> TRUE, install |-> FALSE,
          outcome |-> Raise("ClientError", JInt(result.status))]
    ELSE IF result.content_type # JsonType
    THEN [sent |-> TRUE, install |-> FALSE,
          outcome |-> Raise("ContentTypeError", JInt(result.status))]
    ELSE [sent |-> TRUE, install |-> TRUE, outcome |-> Returned(result.body)]

ClientUsersReauth ==
    \E auth \in UserAuthDicts(StoredToken), result \in Responses :
        LET r == UsersReauth(auth, result) IN
        /\ clientLast' =
               Call("users_reauth", auth, r.sent, NoneValue,
                    IF r.sent THEN Item(auth, "verified") ELSE NoneValue,
                    IF r.sent THEN result ELSE NoneValue, FALSE, r.outcome)
        /\ IF r.install
           THEN UpdataAuth(result.body)
           ELSE UNCHANGED <<clientAuth, headerAuth>>
        /\ UNCHANGED notClient

\* confirmation_type.lower() of the default "PHONE".
ConfirmationType == JStr(<<"p", "h", "o", "n", "e">>)

\* PescClient.async_users_check_confirmation_send: the body of the answer
\* does not matter; the transaction is returned with its confirmation type.
ClientConfirmationSend ==
    \E result \in Responses :
        /\ clientLast' =
               Call("confirmation_send", NoneValue, TRUE, NoneValue, NoneValue, result,
                    FALSE,
                    IF result.status # 200
                    THEN Raise("ClientError", JInt(result.status))
                    ELSE Returned(JDict({<<"confirmation_type",
                                           ConfirmationType>>})))
        /\ UNCHANGED <<clientAuth, headerAuth>>
        /\ UNCHANGED notClient

\* PescClient.async_users_check_verification
ClientCheckVerification ==
    \E result \in Responses :
        /\ IF result.status # 200
           THEN /\ clientLast' =
                       Call("check_verification", NoneValue, TRUE, NoneValue, NoneValue,
                            result, FALSE,
                            Raise("ClientError", JInt(result.status)))
                /\ UNCHANGED <<clientAuth, headerAuth>>
           ELSE IF result.content_type # JsonType
           THEN /\ clientLast' =
                       Call("check_verification", NoneValue, TRUE, NoneValue, NoneValue,
                            result, FALSE,
                            Raise("ContentTypeError", JInt(result.status)))
                /\ UNCHANGED <<clientAuth, headerAuth>>
           ELSE /\ clientLast' =
                       Call("check_verification", NoneValue, TRUE, NoneValue, NoneValue,
                            result, FALSE, Returned(result.body))
                /\ UpdataAuth(result.body)
        /\ UNCHANGED notClient

ClientNext ==
    \/ ClientGet
    \/ ClientUpdateValue
    \/ ClientLogin
    \/ ClientUsersAuth
    \/ ClientUsersReauth
    \/ ClientConfirmationSend
    \/ ClientCheckVerification

InitClient ==
    /\ ClientInit
    /\ CoordIdle /\ FlowIdle /\ SensorIdle /\ ApiIdle /\ TariffIdle
    /\ DetailIdle /\ UpdateIdle /\ InstIdle /\ FetchIdle /\ TxIdle
    /\ ReauthIdle

SpecClient == InitClient /\ [][ClientNext]_vars

\* ---- C18 ----------------------------------------------------------------

\* The JSON body of the response carries code 5.
CarriesCode5(result) ==
    /\ result.content_type = JsonType
    /\ \E it \in result.body.items :
           it[1] = "code" /\ it[2] \in {JInt(5), JStr(<<"5">>)}

HasToken(auth) ==
    CASE auth.type = "dict" -> In("auth", auth)
      [] auth.type = "str" -> TRUE
      [] auth.type = "NoneType" -> FALSE

TokenOf(auth) == IF auth.type = "dict" THEN Item(auth, "auth") ELSE auth

AuthCalls ==
    {"login", "users_reauth", "confirmation_send", "check_verification"}

\* C19: the Authorization header is always "Bearer " and the auth token of
\* the stored credentials; a failed login, re-authentication,
\* confirmation-send or verification changes neither the stored credentials
\* nor the header; the requests of these calls carry no Authorization header.
C19_HeaderFollowsCredentials ==
    /\ [](/\ headerAuth = IF HasToken(clientAuth)
                           THEN Bearer(TokenOf(clientAuth)) ELSE NoneValue
          /\ clientLast.call \in AuthCalls /\ clientLast.sent =>
                 clientLast.authorization = NoneValue)
    /\ [][clientLast'.call \in AuthCalls /\ clientLast'.exc # "none" =>
            clientAuth' = clientAuth /\ headerAuth' = headerAuth]_vars

\* ---- C21 ----------------------------------------------------------------

\* C21: async_users_auth returns the answer only for status 424; every other
\* status, 200 included, raises ClientError; the call never changes the
\* stored credentials.
C21_UsersAuthOnly424 ==
    /\ [](clientLast.call = "users_auth" =>
            /\ clientLast.exc = "none" =>
                   /\ clientLast.result.status = 424
                   /\ clientLast.value = clientLast.result.body
            /\ clientLast.result.status # 424 =>
                   clientLast.exc = "ClientError")
    /\ [][clientLast'.call = "users_auth" => clientAuth' = clientAuth]_vars

\* A 200 answer with new credentials in its body was refused and the
\* credentials the client was constructed with are still stored.
C21_Witness ==
    /\ clientLast.call = "users_auth"
    /\ clientLast.result.status = 200
    /\ clientLast.result.content_type = JsonType
    /\ clientLast.result.body = JDict({<<"auth", IssuedToken>>})
    /\ clientLast.exc = "ClientError"
    /\ clientAuth = JDict({<<"auth", StoredToken>>})

\* ======================================================================
\* PescClient: the two-factor transaction (pesc_client.py)
\* ======================================================================

MaxTransactions == 2

\* state a successful code verification does not touch
notTxAuth == <<coordVars, flowVars, sensorVars, apiVars, tariffVars,
               detailVars, updateVars, instVars, fetchVars, clientLast,
               reauthVars>>

\* state the reauth_confirm step does not touch
notReauth == <<coordVars, flowVars, sensorVars, apiVars, tariffVars,
               detailVars, updateVars, instVars, fetchVars, clientVars,
               txVars>>

UpperCase == <<"A", "E", "H", "I", "L", "M", "N", "O", "P">>

LowerCase == <<"a", "e", "h", "i", "l", "m", "n", "o", "p">>

\* str.lower(), one character
LowerChar(c) ==
    IF \E i \in 1..Len(UpperCase) : UpperCase[i] = c
    THEN LowerCase[CHOOSE i \in 1..Len(UpperCase) : UpperCase[i] = c]
    ELSE c

\* str.lower()
Lower(chars) == [i \in 1..Len(chars) |-> LowerChar(chars[i])]

\* The confirmation_type arguments: the server's names and one already in
\* lower case.
ConfirmationTypeArgs ==
    {<<"P", "H", "O", "N", "E">>, <<"E", "M", "A", "I", "L">>,
     <<"p", "h", "o", "n", "e">>}

\* obj[key] = value on a dict
SetItem(obj, key, value) ==
    JDict({it \in obj.items : it[1] # key} \cup {<<key, value>>})

\* The UserAuthTransaction of the n-th 424 answer (its types list left out).
Transaction(n) == JDict({<<"transactionId", JInt(n)>>})

\* The answers to a verification: credentials or an empty object.
TxResponses ==
    {r \in Responses :
        r.body \in {JDict({}),
                    JDict({<<"auth", IssuedToken>>,
                           <<"verified", VerifiedToken>>})}}

\* Records the type whatever the status of the answer.
ConfirmationSent_AnyStatus(tx, confirmation_type, status) ==
    SetItem(tx, "confirmation_type", JStr(Lower(confirmation_type)))

\* The transaction after async_users_check_confirmation_send: the lower-cased
\* type is assigned after the status test.
ConfirmationSent(tx, confirmation_type, status) ==
    IF status # 200 THEN tx
    ELSE SetItem(tx, "confirmation_type", JStr(Lower(confirmation_type)))

TxCall(name, n, arg, sent, urlType, status, exc) ==
    [call |-> name, tx |-> n, arg |-> arg, sent |-> sent,
     urlType |-> urlType, status |-> status, exc |-> exc]

\* PescClient.async_users_auth: a 424 answer is a new transaction.
TxUsersAuth ==
    /\ Len(transactions) < MaxTransactions
    /\ \E status \in Statuses :
           /\ transactions' =
                  IF status = 424
                  THEN Append(transactions,
                              Transaction(Len(transactions) + 1))
                  ELSE transactions
           /\ txLast' = TxCall("users_auth", 0, <<>>, TRUE, NoneValue, status,
                               IF status = 424 THEN "none" ELSE "ClientError")
    /\ UNCHANGED sendSucceeded
    /\ UNCHANGED notTx

\* PescClient.async_users_check_confirmation_send
TxConfirmationSend ==
    /\ \E n \in DOMAIN transactions, confirmation_type \in ConfirmationTypeArgs,
          status \in Statuses :
           /\ transactions' =
                  [transactions EXCEPT
                      ![n] = ConfirmationSent(@, confirmation_type, status)]
           /\ sendSucceeded' =
                  IF status = 200 THEN sendSucceeded \cup {n}
                  ELSE sendSucceeded
           /\ txLast' = TxCall("confirmation_send", n, confirmation_type, TRUE,
                               JStr(Lower(confirmation_type)), status,
                               IF status = 200 THEN "none" ELSE "ClientError")
    /\ UNCHANGED notTx

\* PescClient.async_users_check_verification: the type is read from the
\* transaction before the request is built; a 200 JSON answer is installed
\* by _updata_auth.
TxCheckVerification ==
    /\ \E n \in DOMAIN transactions, result \in TxResponses :
           LET tx == transactions[n] IN
           IF ~In("confirmation_type", tx)
           THEN /\ txLast' = TxCall("check_verification", n, <<>>, FALSE,
                                    NoneValue, 0, "KeyError")
                /\ UNCHANGED <<clientAuth, headerAuth>>
           ELSE /\ txLast' =
                       TxCall("check_verification", n, <<>>, TRUE,
                              Item(tx, "confirmation_type"), result.status,
                              IF result.status # 200 THEN "ClientError"
                              ELSE IF result.content_type # JsonType
                              THEN "ContentTypeError" ELSE "none")
                /\ IF result.status = 200 /\ result.content_type = JsonType
                   THEN UpdataAuth(result.body)
                   ELSE UNCHANGED <<clientAuth, headerAuth>>
    /\ UNCHANGED <<transactions, sendSucceeded>>
    /\ UNCHANGED notTxAuth

TxNext ==
    \/ TxUsersAuth
    \/ TxConfirmationSend
    \/ TxCheckVerification

InitTx ==
    /\ TxIdle
    /\ CoordIdle /\ FlowIdle /\ SensorIdle /\ ApiIdle /\ TariffIdle
    /\ DetailIdle /\ UpdateIdle /\ InstIdle /\ FetchIdle /\ ClientIdle
    /\ ReauthIdle

SpecTx == InitTx /\ [][TxNext]_vars

\* ---- C22 ----------------------------------------------------------------

\* The lower-case spelling of a confirmation type argument.
Recorded(confirmation_type) ==
    IF confirmation_type = <<"E", "M", "A", "I", "L">>
    THEN JStr(<<"e", "m", "a", "i", "l">>)
    ELSE JStr(<<"p", "h", "o", "n", "e">>)

\* C22: a verification request goes out only for a transaction on which a
\* confirmation-send succeeded, with exactly the type recorded on it, and
\* none goes out for a transaction without a recorded type; a
\* confirmation-send records the lower-cased type on its transaction when
\* the answer is 200 and otherwise leaves the transaction as it was.
C22_VerificationAfterSend ==
    /\ [](txLast.call = "check_verification" =>
            LET tx == transactions[txLast.tx] IN
            /\ txLast.sent =>
                   /\ txLast.tx \in sendSucceeded
                   /\ In("confirmation_type", tx)
                   /\ txLast.urlType = Item(tx, "confirmation_type")
            /\ ~In("confirmation_type", tx) => ~txLast.sent)
    /\ [][txLast'.call = "confirmation_send" =>
            LET n == txLast'.tx IN
            /\ \A m \in DOMAIN transactions :
                   m # n => transactions'[m] = transactions[m]
            /\ txLast'.status # 200 => transactions'[n] = transactions[n]
            /\ txLast'.status = 200 =>
                   /\ In("confirmation_type", transactions'[n])
                   /\ Item(transactions'[n], "confirmation_type") =
                          Recorded(txLast'.arg)]_vars

\* A verification was sent with the type "email" for a transaction whose
\* confirmation-send with "EMAIL" had succeeded, and was accepted.
C22_Witness ==
    /\ txLast.call = "check_verification"
    /\ txLast.sent
    /\ txLast.status = 200
    /\ txLast.exc = "none"
    /\ txLast.urlType = JStr(<<"e", "m", "a", "i", "l">>)
    /\ txLast.tx \in sendSucceeded
    /\ clientAuth # NoneValue

\* ======================================================================
\* The reauth_confirm step of the config flow (config_flow.py)
\* ======================================================================

\* entry.data of the entry that asks for re-authentication: the fields
\* async_step_verify_code stores, the password only when it was saved, and
\* entries of before the login type was stored.
ReauthEntries ==
    UNION { { [k \in K |->
                  CASE k = CONF_AUTH -> a
                    [] k = CONF_USERNAME -> u
                    [] k = CONF_LOGIN_TYPE -> t
                    [] k = CONF_PASSWORD -> p] :
              a \in UserAuths, u \in Usernames, t \in FlowLoginTypes,
              p \in Passwords } :
            K \in { {CONF_AUTH, CONF_USERNAME} \cup O :
                       O \in SUBSET {CONF_LOGIN_TYPE, CONF_PASSWORD} } }

\* self.async_show_form(step_id="reauth_confirm", errors=errors)
ShowForm(errors) ==
    [type |-> "form", step_id |-> "reauth_confirm", reason |-> "",
     errors |-> errors]

\* self.async_abort(reason=...)
Abort(reason) ==
    [type |-> "abort", step_id |-> "", reason |-> reason, errors |-> <<>>]

\* An exception no except clause of the step catches.
Uncaught(exc) ==
    [type |-> "raise", step_id |-> "", reason |-> exc, errors |-> <<>>]

\* errors[key] = code on the empty errors dict
ErrorsOf(key, code) == [k \in {key} |-> code]

\* {**a, **b}, a | b
Merge(a, b) ==
    [k \in DOMAIN a \cup DOMAIN b |-> IF k \in DOMAIN b THEN b[k] ELSE a[k]]

\* A bug: the entry's data is replaced by the new credentials alone.
AfterRelogin_DataOnly(outcome, auth) ==
    IF outcome = "ok"
    THEN /\ reauthEntry' = [k \in {CONF_AUTH} |-> auth]
         /\ reauthReloads' = reauthReloads + 1
         /\ reauthResult' = Abort("reauth_successful")
    ELSE /\ reauthResult' =
                IF outcome = "auth_error"
                THEN ShowForm(ErrorsOf(CONF_PASSWORD, "invalid_auth"))
                ELSE ShowForm(ErrorsOf("base", "api_error"))
         /\ UNCHANGED <<reauthEntry, reauthReloads>>

\* async_step_reauth_confirm after api.async_relogin: the entry update, the
\* reload and the abort, or the except clauses and the form.
AfterRelogin(outcome, auth) ==
    IF outcome = "ok"
    THEN /\ reauthEntry' = Merge(reauthEntry, [k \in {CONF_AUTH} |-> auth])
         /\ reauthReloads' = reauthReloads + 1
         /\ reauthResult' = Abort("reauth_successful")
    ELSE /\ reauthResult' =
                IF outcome = "auth_error"
                THEN ShowForm(ErrorsOf(CONF_PASSWORD, "invalid_auth"))
                ELSE ShowForm(ErrorsOf("base", "api_error"))
         /\ UNCHANGED <<reauthEntry, reauthReloads>>

\* async_step_reauth took the entry of the flow's context.
ReauthInit ==
    /\ reauthEntry \in ReauthEntries
    /\ reauthStart = reauthEntry
    /\ reauthLogin = [outcome |-> "none", username |-> "", password |-> "",
                      login_type |-> "",
                      auth |-> [auth |-> "", verified |-> ""]]
    /\ reauthResult = [type |-> "none", step_id |-> "", reason |-> "",
                       errors |-> <<>>]
    /\ reauthReloads = 0

\* async_step_reauth calls async_step_reauth_confirm without user input.
ReauthShow ==
    /\ reauthResult.type = "none"
    /\ reauthResult' = ShowForm(<<>>)
    /\ UNCHANGED <<reauthEntry, reauthStart, reauthLogin, reauthReloads>>
    /\ UNCHANGED notReauth

\* async_step_reauth_confirm with the password typed into the form.
ReauthSubmit ==
    /\ reauthResult.type = "form"
    /\ \E password \in Passwords, outcome \in FlowApiOutcomes,
          auth \in UserAuths :
           LET user_input ==
                   Merge(reauthEntry, [k \in {CONF_PASSWORD} |-> password])
           IN  IF CONF_LOGIN_TYPE \notin DOMAIN reauthEntry
               THEN /\ reauthResult' = Uncaught("KeyError")
                    /\ UNCHANGED <<reauthEntry, reauthLogin, reauthReloads>>
               ELSE /\ reauthLogin' =
                           [outcome |-> outcome,
                            username |-> user_input[CONF_USERNAME],
                            password |-> user_input[CONF_PASSWORD],
                            login_type |-> reauthEntry[CONF_LOGIN_TYPE],
                            auth |-> IF outcome = "ok" THEN auth
                                     ELSE [auth |-> "", verified |-> ""]]
                    /\ AfterRelogin(outcome, auth)
    /\ UNCHANGED reauthStart
    /\ UNCHANGED notReauth

ReauthNext ==
    \/ ReauthShow
    \/ ReauthSubmit

InitReauth ==
    /\ ReauthInit
    /\ CoordIdle /\ FlowIdle /\ SensorIdle /\ ApiIdle /\ TariffIdle
    /\ DetailIdle /\ UpdateIdle /\ InstIdle /\ FetchIdle /\ ClientIdle
    /\ TxIdle

SpecReauth == InitReauth /\ [][ReauthNext]_vars

\* ---- C23 ----------------------------------------------------------------

====
